---- MODULE Spec2Model ----
(***************************************************************************)
(* Model of the rainfall statistics of bcn-rainfall-models.                *)
(*                                                                         *)
(* The layers of the repository that are modelled:                         *)
(*   - src/src/main.py: the script, functions over a DataFrame             *)
(*     (specification MainSpec);                                           *)
(*   - src/src/classes/yearly_rainfall.py: the YearlyRainfall class        *)
(*     (specification Spec);                                               *)
(*   - src/back/api/app.py: the FastAPI routes over the rainfall models    *)
(*     (specification ApiSpec); the models behind the routes               *)
(*     (back/rainfall/models) follow the written specification;            *)
(*   - the derived columns of the table (specification TableSpec);         *)
(*   - the loading of the table from the monthly dataset, by               *)
(*     src/back/core/utils/functions/dataframe_operations.py and by the    *)
(*     class (specification LoadSpec).                                     *)
(*                                                                         *)
(* Numbers: a rainfall depth, an average or a percentage is a decimal with *)
(* rounding_precision digits; the model holds it as the integer number of  *)
(* units of 10^-rounding_precision, and round(x, precision) is rounding    *)
(* of an exact quotient to the nearest unit, ties to even (numpy's rule).  *)
(* A float that is not finite is kept apart: inf, -inf, nan.               *)
(***************************************************************************)
EXTENDS Integers, Sequences, FiniteSets, TLC

VARIABLES
    yearly_rainfall,  \* the DataFrame: column label -> sequence of cells
    op,               \* the last operation executed
    req,              \* its arguments
    res,              \* its outcome
    script_normal,    \* the script's normal, which its percentages are of
    monthly_rainfall  \* the raw dataset: its columns by position, Year first

vars == <<yearly_rainfall, op, req, res, script_normal, monthly_rainfall>>

-----------------------------------------------------------------------------
(* Bounds of the model and constants of the program *)

\* number of distinct rainfall depths (in units) a year can have: 0..MaxRain
MaxRain == 2
\* the loaded series repeats a pattern of Period free yearly values
Period == 2
\* years in the loaded table of the class and of the API
NumYears == 31
\* query ranges are tried with end_year up to begin_year + MaxSpan
MaxSpan == 3
\* a large rainfall depth (units) of the script's series
HighRain == 30000
\* the rainfall of the one wet year of a dry dataset, in units
WetRain == 16
\* the small tables have 2 * HalfTable + 1 years
HalfTable == 2
\* the steepest rainfall of a linear dataset, in units a year
MaxSlope == 1
\* years in the table the script loads: 1970 to 2020
MainNumYears == 51

\* starting_year
StartYear == 1970
\* round(..., 2)
rounding_precision == 2
\* a normal is a 30 years average: end_year = begin_year + 29
NormalSpan == 29

Scale == 10 ^ rounding_precision

YEAR == "Year"
RAINFALL == "Rainfall"
LINEAR_REGRESSION == "Linear regression"
SAVITZKY_GOLAY_FILTER == "Savitzky-Golay filter"
KMEANS == "K-Means"
PERCENTAGE_OF_NORMAL == "Percentage of normal"

-----------------------------------------------------------------------------
(* Floats and optionals *)

Num(v) == [kind |-> "num", v |-> v]
Inf == [kind |-> "inf", v |-> 0]
NegInf == [kind |-> "-inf", v |-> 0]
NaN == [kind |-> "nan", v |-> 0]
\* Python's None as a returned value
NoneVal == [kind |-> "none", v |-> 0]

IsNum(x) == x.kind = "num"

\* the dataset once it has been read and summed into the table: not kept
NoDataset == [kind |-> "none", v |-> 0]

\* a DataFrame as a returned value
Frame(df) == [kind |-> "frame", v |-> df]

\* an optional argument: <<>> is None, <<v>> is v
None == <<>>
Some(v) == <<v>>
IsNone(o) == o = <<>>
Get(o) == o[1]

Abs(x) == IF x < 0 THEN -x ELSE x

\* round(a / n, rounding_precision) in units, for n > 0: nearest, ties to even
RoundDiv(a, n) ==
    LET q == a \div n
        r == a % n
    IN  IF 2 * r < n THEN q
        ELSE IF 2 * r > n THEN q + 1
        ELSE IF q % 2 = 0 THEN q ELSE q + 1

\* round(a / n, rounding_precision) for any integer n /= 0
RoundQuot(a, n) == IF n > 0 THEN RoundDiv(a, n) ELSE RoundDiv(-a, -n)

\* numpy float division a / n followed by round: never raises
FloatDiv(a, n) ==
    IF n /= 0 THEN Num(RoundQuot(a, n))
    ELSE IF a > 0 THEN Inf
    ELSE IF a < 0 THEN NegInf
    ELSE NaN

-----------------------------------------------------------------------------
(* DataFrames *)

RECURSIVE SumTo(_, _)
SumTo(s, n) == IF n = 0 THEN 0 ELSE s[n] + SumTo(s, n - 1)

\* Series.sum()
SumSeq(s) == SumTo(s, Len(s))

NRows(df) == Len(df[YEAR])

\* df[mask]: the rows whose position is in keep, in order, every column
Filter(df, keep) ==
    LET kept == SelectSeq([i \in 1..NRows(df) |-> i], LAMBDA i : i \in keep)
    IN  [c \in DOMAIN df |-> [k \in 1..Len(kept) |-> df[c][kept[k]]]]

\* df[label] = cells
SetColumn(df, label, cells) ==
    [c \in DOMAIN df \cup {label} |-> IF c = label THEN cells ELSE df[c]]

-----------------------------------------------------------------------------
(* Loading: one row per year from starting_year on, rainfall rounded *)

Patterns(values) == [1..Period -> values]

\* a dataset whose first year has rain and no other year has
OneWetYear(n) ==
    [c \in {YEAR, RAINFALL} |->
        IF c = YEAR THEN [i \in 1..n |-> StartYear + i - 1]
        ELSE [i \in 1..n |-> IF i = 1 THEN WetRain ELSE 0]]

\* the yearly sums of a dataset whose years repeat a pattern
LoadedTable(pattern, n) ==
    [c \in {YEAR, RAINFALL} |->
        IF c = YEAR THEN [i \in 1..n |-> StartYear + i - 1]
        ELSE [i \in 1..n |-> pattern[((i - 1) % Period) + 1]]]

-----------------------------------------------------------------------------
(* YearlyRainfall (src/src/classes/yearly_rainfall.py) *)

\* a variant that forgets end_year
get_yearly_rainfall_ignoring_end(df, begin_year, end_year) ==
    IF IsNone(begin_year) THEN df
    ELSE Filter(df, {i \in 1..NRows(df) : df[YEAR][i] >= Get(begin_year)})

\* a variant that leaves out the row of end_year itself
get_yearly_rainfall_exclusive_end(df, begin_year, end_year) ==
    LET yr1 == IF IsNone(begin_year) THEN df
               ELSE Filter(df, {i \in 1..NRows(df) : df[YEAR][i] >= Get(begin_year)})
    IN  IF IsNone(end_year) THEN yr1
        ELSE Filter(yr1, {i \in 1..NRows(yr1) : yr1[YEAR][i] < Get(end_year)})

\* rows with begin_year <= Year (when given) and Year <= end_year (when given)
get_yearly_rainfall(df, begin_year, end_year) ==
    LET yr1 == IF IsNone(begin_year) THEN df
               ELSE Filter(df, {i \in 1..NRows(df) : df[YEAR][i] >= Get(begin_year)})
    IN  IF IsNone(end_year) THEN yr1
        ELSE Filter(yr1, {i \in 1..NRows(yr1) : yr1[YEAR][i] <= Get(end_year)})

\* 0. for an empty selection, else round(sum of Rainfall / nb_years, precision)
get_average_yearly_rainfall(df, begin_year, end_year) ==
    LET yr == get_yearly_rainfall(df, begin_year, end_year)
        nb_years == NRows(yr)
    IN  IF nb_years = 0 THEN 0
        ELSE RoundDiv(SumSeq(yr[RAINFALL]), nb_years)

\* a variant that counts in the whole table instead of the selected years
get_years_below_average_whole_table(df, begin_year, end_year) ==
    LET avg == get_average_yearly_rainfall(df, begin_year, end_year)
    IN  NRows(Filter(df, {i \in 1..NRows(df) : df[RAINFALL][i] < avg}))

get_years_below_average(df, begin_year, end_year) ==
    LET yr == get_yearly_rainfall(df, begin_year, end_year)
        avg == get_average_yearly_rainfall(df, begin_year, end_year)
    IN  NRows(Filter(yr, {i \in 1..NRows(yr) : yr[RAINFALL][i] < avg}))

\* a variant that counts by the percentages of normal once the table has them
get_years_above_average_by_percentage(df, begin_year, end_year) ==
    LET yr == get_yearly_rainfall(df, begin_year, end_year)
        avg == get_average_yearly_rainfall(df, begin_year, end_year)
    IN  IF PERCENTAGE_OF_NORMAL \in DOMAIN df
        THEN NRows(Filter(yr, {i \in 1..NRows(yr) :
                                   yr[PERCENTAGE_OF_NORMAL][i].v > 100 * Scale}))
        ELSE NRows(Filter(yr, {i \in 1..NRows(yr) : yr[RAINFALL][i] > avg}))

get_years_above_average(df, begin_year, end_year) ==
    LET yr == get_yearly_rainfall(df, begin_year, end_year)
        avg == get_average_yearly_rainfall(df, begin_year, end_year)
    IN  NRows(Filter(yr, {i \in 1..NRows(yr) : yr[RAINFALL][i] > avg}))

\* returns None; without effect when the normal is 0., else sets the column
\* to round(Rainfall / normal * 100.0, precision)
add_percentage_of_normal(df, begin_year, end_year) ==
    LET normal == get_average_yearly_rainfall(df, begin_year, end_year)
    IN  IF normal = 0 THEN df
        ELSE SetColumn(df, PERCENTAGE_OF_NORMAL,
                 [i \in 1..NRows(df) |->
                     Num(RoundDiv(df[RAINFALL][i] * 100 * Scale, normal))])

-----------------------------------------------------------------------------
(* Arguments tried *)

LastYear == StartYear + NumYears - 1

\* years around both ends of the table
YearArgs == ((StartYear - 1)..(StartYear + MaxSpan)) \cup {LastYear, LastYear + 1}

\* end_year: None, or a year from just before begin_year to MaxSpan after it
EndArgs(b) == {None} \cup {Some(e) : e \in (b - 1)..(b + MaxSpan)}

NoReq == [begin_year |-> None, end_year |-> None, normal_year |-> None,
          time_mode |-> "", month |-> None, season |-> None, normal |-> NoneVal,
          weigh_by_average |-> FALSE, label |-> "",
          start_month |-> None, end_month |-> None, n_clusters |-> None]

Range(b, e) == [NoReq EXCEPT !.begin_year = b, !.end_year = e]

\* an outcome: the value returned, whether an exception left the operation,
\* and whether the operation read the data to compute
Returned(v) == [status |-> "ok", value |-> v, computed |-> TRUE,
                end_year |-> None, month |-> None, season |-> None]

NoRes == [status |-> "idle", value |-> NoneVal, computed |-> FALSE,
          end_year |-> None, month |-> None, season |-> None]

\* what a statistic gives back: a value, or the status of its failure
Ok(v) == [status |-> "ok", value |-> v]

\* an exception or an HTTP error left the operation before it computed
Raised(e) == [status |-> e, value |-> NoneVal, computed |-> FALSE,
              end_year |-> None, month |-> None, season |-> None]

\* between two calls: no operation is running and nothing is returned
Idle == op = "idle"

-----------------------------------------------------------------------------
(* Operations of YearlyRainfall *)

GetAverageYearlyRainfall ==
    /\ Idle
    /\ \E b \in YearArgs : \E e \in EndArgs(b) :
           /\ op' = "get_average_yearly_rainfall"
           /\ req' = Range(Some(b), e)
           /\ res' = Returned(Num(get_average_yearly_rainfall(yearly_rainfall, Some(b), e)))
           /\ UNCHANGED <<yearly_rainfall, script_normal, monthly_rainfall>>

GetYearsBelowAverage ==
    /\ Idle
    /\ \E b \in YearArgs : \E e \in EndArgs(b) :
           /\ op' = "get_years_below_average"
           /\ req' = Range(Some(b), e)
           /\ res' = Returned(Num(get_years_below_average(yearly_rainfall, Some(b), e)))
           /\ UNCHANGED <<yearly_rainfall, script_normal, monthly_rainfall>>

GetYearsAboveAverage ==
    /\ Idle
    /\ \E b \in YearArgs : \E e \in EndArgs(b) :
           /\ op' = "get_years_above_average"
           /\ req' = Range(Some(b), e)
           /\ res' = Returned(Num(get_years_above_average(yearly_rainfall, Some(b), e)))
           /\ UNCHANGED <<yearly_rainfall, script_normal, monthly_rainfall>>

AddPercentageOfNormal ==
    /\ Idle
    /\ \E b \in YearArgs : \E e \in EndArgs(b) :
           /\ op' = "add_percentage_of_normal"
           /\ req' = Range(Some(b), e)
           /\ yearly_rainfall' = add_percentage_of_normal(yearly_rainfall, Some(b), e)
           /\ res' = Returned(NoneVal)
           /\ UNCHANGED <<script_normal, monthly_rainfall>>

-----------------------------------------------------------------------------
(* The rainfall models behind the API (back/rainfall/models) *)

\* a variant that leaves out the row of begin_year itself
get_rainfall_within_year_interval_exclusive_begin(df, begin_year, end_year) ==
    LET yr == IF IsNone(end_year) THEN df
              ELSE Filter(df, {i \in 1..NRows(df) : df[YEAR][i] <= Get(end_year)})
    IN  Filter(yr, {i \in 1..NRows(yr) : yr[YEAR][i] > begin_year})

\* rows with Year <= end_year (when given) and Year >= begin_year
get_rainfall_within_year_interval(df, begin_year, end_year) ==
    LET yr == IF IsNone(end_year) THEN df
              ELSE Filter(df, {i \in 1..NRows(df) : df[YEAR][i] <= Get(end_year)})
    IN  Filter(yr, {i \in 1..NRows(yr) : yr[YEAR][i] >= begin_year})

\* normal(start_year) = average over [start_year, start_year + 29]
get_normal(df, begin_year) ==
    get_average_yearly_rainfall(df, Some(begin_year), Some(begin_year + NormalSpan))

\* a variant that takes the distance from the average to the normal the other way
get_relative_distance_to_normal_reversed(df, normal_year, begin_year, end_year) ==
    LET nrm == get_normal(df, normal_year)
        avg == get_average_yearly_rainfall(df, Some(begin_year), Some(end_year))
    IN  IF nrm = 0 THEN [status |-> "500", value |-> NoneVal]
        ELSE [status |-> "ok",
              value |-> Num(RoundQuot((nrm - avg) * 100 * Scale, nrm))]

\* (average - normal) / normal * 100, rounded; an error when the normal is 0
get_relative_distance_to_normal(df, normal_year, begin_year, end_year) ==
    LET nrm == get_normal(df, normal_year)
        avg == get_average_yearly_rainfall(df, Some(begin_year), Some(end_year))
    IN  IF nrm = 0 THEN [status |-> "500", value |-> NoneVal]
        ELSE [status |-> "ok",
              value |-> Num(RoundQuot((avg - nrm) * 100 * Scale, nrm))]

\* the number of years of the range whose rainfall is strictly below the normal
get_years_below_normal(df, normal_year, begin_year, end_year) ==
    LET yr == get_rainfall_within_year_interval(df, begin_year, Some(end_year))
        nrm == get_normal(df, normal_year)
    IN  NRows(Filter(yr, {i \in 1..NRows(yr) : yr[RAINFALL][i] < nrm}))

\* the number of years of the range whose rainfall is strictly above the normal
get_years_above_normal(df, normal_year, begin_year, end_year) ==
    LET yr == get_rainfall_within_year_interval(df, begin_year, Some(end_year))
        nrm == get_normal(df, normal_year)
    IN  NRows(Filter(yr, {i \in 1..NRows(yr) : yr[RAINFALL][i] > nrm}))

RECURSIVE SumSquaresTo(_, _)
SumSquaresTo(s, n) == IF n = 0 THEN 0 ELSE s[n] * s[n] + SumSquaresTo(s, n - 1)

\* k half steps lie below sqrt(v) / d: (2k - 1) * d < 2 * sqrt(v) (or <=, when closed)
\* the greatest integer whose square is a number the checker holds
SqrtOfWidth == 46340

\* with a = (2k - 1) * d and b = a \div 2: a * a < 4 * v is b * b < v for an
\* even a and b * b + b < v for an odd one; b above SqrtOfWidth is above any v
HalfStepBelow(v, d, closed, k) ==
    LET a == (2 * k - 1) * d
        b == a \div 2
    IN  \/ k = 0
        \/ /\ b <= SqrtOfWidth
           /\ IF a % 2 = 0 THEN b * b < v \/ (closed /\ b * b = v)
              ELSE b * b + b < v

RECURSIVE FirstNotBelow(_, _, _, _)
\* a power of two that is no half step below, from k on
FirstNotBelow(v, d, closed, k) ==
    IF HalfStepBelow(v, d, closed, k) THEN FirstNotBelow(v, d, closed, 2 * k) ELSE k

RECURSIVE LastBelow(_, _, _, _, _)
\* the greatest half step below in lo..hi, lo being one
LastBelow(v, d, closed, lo, hi) ==
    IF lo = hi THEN lo
    ELSE LET mid == (lo + hi + 1) \div 2
         IN  IF HalfStepBelow(v, d, closed, mid)
             THEN LastBelow(v, d, closed, mid, hi)
             ELSE LastBelow(v, d, closed, lo, mid - 1)

HalfStepsBelow(v, d, closed) ==
    LastBelow(v, d, closed, 0, FirstNotBelow(v, d, closed, 1) - 1)

\* round(sqrt(v) / d, precision) in units, for d > 0: nearest, ties to even
RoundSqrtDiv(v, d) ==
    LET down == HalfStepsBelow(v, d, FALSE)
        up == HalfStepsBelow(v, d, TRUE)
    IN  IF down = up \/ down % 2 = 0 THEN down ELSE up

\* the sample standard deviation (divisor n - 1) in the place of the population's
get_standard_deviation_sample(df, begin_year, end_year, weigh_by_average) ==
    LET yr == get_rainfall_within_year_interval(df, begin_year, end_year)
        n == NRows(yr)
        total == SumSeq(yr[RAINFALL])
        v == n * SumSquaresTo(yr[RAINFALL], n) - total * total
        avg == get_average_yearly_rainfall(df, Some(begin_year), end_year)
    IN  IF n = 0 THEN {Ok(Num(0))}
        ELSE IF n = 1 THEN {Ok(NaN)}
        ELSE IF ~weigh_by_average THEN {Ok(Num(RoundSqrtDiv(v * n * (n - 1), n * (n - 1))))}
        ELSE IF avg = 0 THEN {Ok(NaN), [status |-> "500", value |-> NoneVal]}
        ELSE {Ok(Num(RoundSqrtDiv(v * n * (n - 1), n * (n - 1) * avg) * Scale))}

\* population standard deviation of the rainfall of the range, 0 for an empty
\* range; divided by the average of the range when weigh_by_average
get_standard_deviation(df, begin_year, end_year, weigh_by_average) ==
    LET yr == get_rainfall_within_year_interval(df, begin_year, end_year)
        n == NRows(yr)
        total == SumSeq(yr[RAINFALL])
        \* n * n * variance
        v == n * SumSquaresTo(yr[RAINFALL], n) - total * total
        avg == get_average_yearly_rainfall(df, Some(begin_year), end_year)
    IN  IF n = 0 THEN {Ok(Num(0))}
        ELSE IF ~weigh_by_average THEN {Ok(Num(RoundSqrtDiv(v, n)))}
        ELSE IF avg = 0 THEN {Ok(NaN), [status |-> "500", value |-> NoneVal]}
        ELSE {Ok(Num(RoundSqrtDiv(v * Scale * Scale, n * avg)))}

-----------------------------------------------------------------------------
(* The API (src/back/api/app.py) *)

min_year_available == StartYear
max_year_available == LastYear
\* a variant that leaves 29 years after the last normal year
max_normal_year_available_one_year_late == max_year_available - NormalSpan + 1
max_normal_year_available == max_year_available - NormalSpan

\* Query(ge=min_year_available, le=max_year_available)
YearQueryOk(y) == IsNone(y) \/ (min_year_available <= Get(y) /\ Get(y) <= max_year_available)
\* Query(ge=min_year_available, le=max_normal_year_available)
NormalYearQueryOk(y) ==
    IsNone(y) \/ (min_year_available <= Get(y) /\ Get(y) <= max_normal_year_available)

\* raise_year_related_error_or_do_nothing: begin_year > end_year is an error
YearRelatedError(begin_year, end_year) == begin_year > end_year

\* raise_time_mode_error_or_do_nothing: the month or the season of the mode is missing
TimeModeError(time_mode, month, season) ==
    \/ (time_mode = "monthly" /\ IsNone(month))
    \/ (time_mode = "seasonal" /\ IsNone(season))

\* a variant whose default is the year before the last one
EndOrLast_year_before(end_year) ==
    IF IsNone(end_year) THEN max_year_available - 1 ELSE Get(end_year)

\* if end_year is None: end_year = max_year_available
EndOrLast(end_year) == IF IsNone(end_year) THEN max_year_available ELSE Get(end_year)

\* RainfallModel(...): the response of a route that computed
Response(out, end_year, time_mode, month, season) ==
    [status |-> out.status, value |-> out.value, computed |-> TRUE,
     end_year |-> Some(end_year),
     month |-> IF time_mode = "monthly" THEN month ELSE None,
     season |-> IF time_mode = "seasonal" THEN season ELSE None]

\* a variant that does not check the time mode
StatisticRoute_without_time_mode_check(r, out) ==
    IF ~(YearQueryOk(r.begin_year) /\ YearQueryOk(r.end_year)
            /\ NormalYearQueryOk(r.normal_year))
    THEN Raised("422")
    ELSE IF YearRelatedError(Get(r.begin_year), EndOrLast(r.end_year))
    THEN Raised("400")
    ELSE Response(out, EndOrLast(r.end_year), r.time_mode, r.month, r.season)

\* a route of a statistic: the queries are validated, end_year gets its default,
\* then the year check, then the time mode check, then the statistic
StatisticRoute(r, out) ==
    IF ~(YearQueryOk(r.begin_year) /\ YearQueryOk(r.end_year)
            /\ NormalYearQueryOk(r.normal_year))
    THEN Raised("422")
    ELSE IF YearRelatedError(Get(r.begin_year), EndOrLast(r.end_year))
    THEN Raised("400")
    ELSE IF TimeModeError(r.time_mode, r.month, r.season)
    THEN Raised("400")
    ELSE Response(out, EndOrLast(r.end_year), r.time_mode, r.month, r.season)

\* a variant that draws the figure in the yearly mode too
FigureRoute_without_yearly_refusal(r, checks_years, out) ==
    IF ~(YearQueryOk(r.begin_year) /\ YearQueryOk(r.end_year)
            /\ NormalYearQueryOk(r.normal_year))
    THEN Raised("422")
    ELSE IF checks_years /\ YearRelatedError(Get(r.begin_year), EndOrLast(r.end_year))
    THEN Raised("400")
    ELSE Response(out, EndOrLast(r.end_year), r.time_mode, None, None)

\* a route of monthly or seasonal figures: yearly is refused first; the year
\* check is made when the route makes it
FigureRoute(r, checks_years, out) ==
    IF ~(YearQueryOk(r.begin_year) /\ YearQueryOk(r.end_year)
            /\ NormalYearQueryOk(r.normal_year))
    THEN Raised("422")
    ELSE IF r.time_mode = "yearly"
    THEN Raised("400")
    ELSE IF checks_years /\ YearRelatedError(Get(r.begin_year), EndOrLast(r.end_year))
    THEN Raised("400")
    ELSE Response(out, EndOrLast(r.end_year), r.time_mode, None, None)

TimeModes == {"yearly", "monthly", "seasonal"}

\* time_mode with month and season given or not
TimeArgs ==
    {<<"yearly", None, None>>, <<"yearly", Some("May"), Some("spring")>>,
     <<"monthly", Some("May"), None>>, <<"monthly", None, Some("spring")>>,
     <<"seasonal", None, Some("spring")>>, <<"seasonal", Some("May"), None>>}

ApiBeginArgs == {min_year_available - 1, min_year_available,
                 min_year_available + 1, max_year_available}
ApiEndArgs == {None, Some(min_year_available), Some(min_year_available + 1),
               Some(max_year_available + 1)}
ApiNormalArgs == {min_year_available, max_normal_year_available,
                  max_normal_year_available + 1}

Request(b, e, t) ==
    [NoReq EXCEPT !.begin_year = Some(b), !.end_year = e,
                  !.time_mode = t[1], !.month = t[2], !.season = t[3]]

RequestWithNormal(b, e, t, ny) == [Request(b, e, t) EXCEPT !.normal_year = Some(ny)]

\* a figure, a CSV: something that is not a number
Rendered == Ok(NoneVal)

\* the file of a route by year gets its name after the CSV or the figure is
\* made: the name reads month.value in the monthly mode and season.value in
\* the seasonal mode, which is an AttributeError, a 500, on None
Named(r) ==
    IF \/ (r.time_mode = "monthly" /\ IsNone(r.month))
       \/ (r.time_mode = "seasonal" /\ IsNone(r.season))
    THEN [status |-> "500", value |-> NoneVal]
    ELSE Rendered

RouteRainfallAverage ==
    /\ Idle
    /\ \E b \in ApiBeginArgs, e \in ApiEndArgs, t \in TimeArgs :
           /\ op' = "/rainfall/average"
           /\ req' = Request(b, e, t)
           /\ res' = StatisticRoute(req',
                         Ok(Num(get_average_yearly_rainfall(yearly_rainfall,
                                    Some(b), Some(EndOrLast(e))))))
           /\ UNCHANGED <<yearly_rainfall, script_normal, monthly_rainfall>>

RouteRainfallNormal ==
    /\ Idle
    /\ \E b \in ApiNormalArgs, t \in TimeArgs :
           /\ op' = "/rainfall/normal"
           /\ req' = Request(b, None, t)
           /\ res' = IF ~NormalYearQueryOk(Some(b)) THEN Raised("422")
                     ELSE IF TimeModeError(t[1], t[2], t[3]) THEN Raised("400")
                     ELSE Response(Ok(Num(get_normal(yearly_rainfall, b))),
                                   b + NormalSpan, t[1], t[2], t[3])
           /\ UNCHANGED <<yearly_rainfall, script_normal, monthly_rainfall>>

\* a variant that hands begin_year and normal_year over in each other's place
RouteRelativeDistanceToNormal_swapped_years ==
    /\ Idle
    /\ \E b \in ApiBeginArgs, e \in ApiEndArgs, t \in TimeArgs, ny \in ApiNormalArgs :
           /\ op' = "/rainfall/relative_distance_to_normal"
           /\ req' = RequestWithNormal(b, e, t, ny)
           /\ res' = StatisticRoute(req',
                         get_relative_distance_to_normal(yearly_rainfall, b, ny, EndOrLast(e)))
           /\ UNCHANGED <<yearly_rainfall, script_normal, monthly_rainfall>>

RouteRelativeDistanceToNormal ==
    /\ Idle
    /\ \E b \in ApiBeginArgs, e \in ApiEndArgs, t \in TimeArgs, ny \in ApiNormalArgs :
           /\ op' = "/rainfall/relative_distance_to_normal"
           /\ req' = RequestWithNormal(b, e, t, ny)
           /\ res' = StatisticRoute(req',
                         get_relative_distance_to_normal(yearly_rainfall, ny, b, EndOrLast(e)))
           /\ UNCHANGED <<yearly_rainfall, script_normal, monthly_rainfall>>

RouteRainfallStandardDeviation ==
    /\ Idle
    /\ \E b \in ApiBeginArgs, e \in ApiEndArgs, t \in TimeArgs, w \in BOOLEAN :
           \E out \in get_standard_deviation(yearly_rainfall, b, Some(EndOrLast(e)), w) :
               /\ op' = "/rainfall/standard_deviation"
               /\ req' = [Request(b, e, t) EXCEPT !.weigh_by_average = w]
               /\ res' = StatisticRoute(req', out)
               /\ UNCHANGED <<yearly_rainfall, script_normal, monthly_rainfall>>

RouteYearsBelowNormal ==
    /\ Idle
    /\ \E b \in ApiBeginArgs, e \in ApiEndArgs, t \in TimeArgs, ny \in ApiNormalArgs :
           /\ op' = "/year/below_normal"
           /\ req' = RequestWithNormal(b, e, t, ny)
           /\ res' = StatisticRoute(req',
                         Ok(Num(get_years_below_normal(yearly_rainfall, ny, b, EndOrLast(e)))))
           /\ UNCHANGED <<yearly_rainfall, script_normal, monthly_rainfall>>

RouteYearsAboveNormal ==
    /\ Idle
    /\ \E b \in ApiBeginArgs, e \in ApiEndArgs, t \in TimeArgs, ny \in ApiNormalArgs :
           /\ op' = "/year/above_normal"
           /\ req' = RequestWithNormal(b, e, t, ny)
           /\ res' = StatisticRoute(req',
                         Ok(Num(get_years_above_normal(yearly_rainfall, ny, b, EndOrLast(e)))))
           /\ UNCHANGED <<yearly_rainfall, script_normal, monthly_rainfall>>

RouteRainfallByYearAsCsv ==
    /\ Idle
    /\ \E b \in ApiBeginArgs, e \in ApiEndArgs, t \in TimeArgs :
           /\ op' = "/csv/rainfall_by_year"
           /\ req' = Request(b, e, t)
           /\ res' = StatisticRoute(req', Named(req'))
           /\ UNCHANGED <<yearly_rainfall, script_normal, monthly_rainfall>>

RouteRainfallByYear ==
    /\ Idle
    /\ \E b \in ApiBeginArgs, e \in ApiEndArgs, t \in TimeArgs :
           /\ op' = "/graph/rainfall_by_year"
           /\ req' = Request(b, e, t)
           /\ res' = StatisticRoute(req', Named(req'))
           /\ UNCHANGED <<yearly_rainfall, script_normal, monthly_rainfall>>

RouteRainfallAverages ==
    /\ Idle
    /\ \E b \in ApiBeginArgs, e \in ApiEndArgs, tm \in TimeModes :
           /\ op' = "/graph/rainfall_averages"
           /\ req' = Request(b, e, <<tm, None, None>>)
           /\ res' = FigureRoute(req', TRUE, Rendered)
           /\ UNCHANGED <<yearly_rainfall, script_normal, monthly_rainfall>>

RouteRainfallLinregSlopes ==
    /\ Idle
    /\ \E b \in ApiBeginArgs, e \in ApiEndArgs, tm \in TimeModes :
           /\ op' = "/graph/rainfall_linreg_slopes"
           /\ req' = Request(b, e, <<tm, None, None>>)
           /\ res' = FigureRoute(req', TRUE, Rendered)
           /\ UNCHANGED <<yearly_rainfall, script_normal, monthly_rainfall>>

RouteRelativeDistancesToNormal ==
    /\ Idle
    /\ \E b \in ApiBeginArgs, e \in ApiEndArgs, tm \in TimeModes, ny \in ApiNormalArgs :
           /\ op' = "/graph/relative_distances_to_normal"
           /\ req' = RequestWithNormal(b, e, <<tm, None, None>>, ny)
           /\ res' = FigureRoute(req', FALSE, Rendered)
           /\ UNCHANGED <<yearly_rainfall, script_normal, monthly_rainfall>>

-----------------------------------------------------------------------------
(* Operations of the rainfall model behind the API *)

GetYearlyRainfall ==
    /\ Idle
    /\ \E b \in {None} \cup {Some(y) : y \in YearArgs} :
       \E e \in IF IsNone(b) THEN EndArgs(StartYear) ELSE EndArgs(Get(b)) :
           /\ op' = "get_yearly_rainfall"
           /\ req' = Range(b, e)
           /\ res' = Returned(Frame(get_yearly_rainfall(yearly_rainfall, b, e)))
           /\ UNCHANGED <<yearly_rainfall, script_normal, monthly_rainfall>>

GetRainfallWithinYearInterval ==
    /\ Idle
    /\ \E b \in YearArgs : \E e \in EndArgs(b) :
           /\ op' = "get_rainfall_within_year_interval"
           /\ req' = Range(Some(b), e)
           /\ res' = Returned(Frame(get_rainfall_within_year_interval(yearly_rainfall, b, e)))
           /\ UNCHANGED <<yearly_rainfall, script_normal, monthly_rainfall>>

GetStandardDeviation ==
    /\ Idle
    /\ \E b \in YearArgs : \E e \in EndArgs(b) : \E w \in BOOLEAN :
           \E out \in get_standard_deviation(yearly_rainfall, b, e, w) :
               /\ op' = "get_standard_deviation"
               /\ req' = [Range(Some(b), e) EXCEPT !.weigh_by_average = w]
               /\ res' = [Returned(out.value) EXCEPT !.status = out.status]
               /\ UNCHANGED <<yearly_rainfall, script_normal, monthly_rainfall>>

-----------------------------------------------------------------------------
(* The caller takes the outcome; the next call starts from the table alone *)

Return ==
    /\ ~Idle
    /\ op' = "idle"
    /\ req' = NoReq
    /\ res' = NoRes
    /\ UNCHANGED <<yearly_rainfall, script_normal, monthly_rainfall>>

-----------------------------------------------------------------------------
(* Specification of the class *)

Init ==
    /\ \/ \E pattern \in Patterns(0..MaxRain) :
              yearly_rainfall = LoadedTable(pattern, NumYears)
       \/ yearly_rainfall = OneWetYear(NumYears)
    /\ op = "idle"
    /\ req = NoReq
    /\ res = NoRes
    /\ script_normal = NoneVal
    /\ monthly_rainfall = NoDataset

Next ==
    \/ GetAverageYearlyRainfall
    \/ GetYearsBelowAverage
    \/ GetYearsAboveAverage
    \/ AddPercentageOfNormal
    \/ GetStandardDeviation
    \/ GetYearlyRainfall
    \/ GetRainfallWithinYearInterval
    \/ Return

Spec == Init /\ [][Next]_vars

-----------------------------------------------------------------------------
(* Specification of the API: all_rainfall is loaded, then requests come *)

ApiNext ==
    \/ RouteRainfallAverage
    \/ RouteRainfallNormal
    \/ RouteRelativeDistanceToNormal
    \/ RouteRainfallStandardDeviation
    \/ RouteYearsBelowNormal
    \/ RouteYearsAboveNormal
    \/ RouteRainfallByYearAsCsv
    \/ RouteRainfallByYear
    \/ RouteRainfallAverages
    \/ RouteRainfallLinregSlopes
    \/ RouteRelativeDistancesToNormal
    \/ Return

ApiSpec == Init /\ [][ApiNext]_vars

-----------------------------------------------------------------------------
(* The script (src/src/main.py) *)

\* rows with Year <= end_year and begin_year <= Year, summed, and the sum
\* divided by end_year - begin_year
main_get_average_yearly_rainfall(df, begin_year, end_year) ==
    LET yr1 == Filter(df, {i \in 1..NRows(df) : df[YEAR][i] <= end_year})
        yr2 == Filter(yr1, {i \in 1..NRows(yr1) : begin_year <= yr1[YEAR][i]})
    IN  FloatDiv(SumSeq(yr2[RAINFALL]), end_year - begin_year)

\* round(rainfall / normal * 100.0, 2) of one cell, as floats divide
PercentageCell(rainfall, nrm) ==
    IF nrm.kind = "nan" THEN NaN
    ELSE IF nrm.kind \in {"inf", "-inf"} THEN Num(0)
    ELSE FloatDiv(rainfall * 100 * Scale, nrm.v)

add_deviation_from_normal(df, nrm) ==
    SetColumn(df, PERCENTAGE_OF_NORMAL,
        [i \in 1..NRows(df) |-> PercentageCell(df[RAINFALL][i], nrm)])

\* percentage > 100.0
PercentageAbove100(x) == x.kind = "inf" \/ (IsNum(x) /\ x.v > 100 * Scale)
\* percentage < 100.0
PercentageBelow100(x) == x.kind = "-inf" \/ (IsNum(x) /\ x.v < 100 * Scale)

count_years_above_normal(df) ==
    NRows(Filter(df, {i \in 1..NRows(df) :
                          PercentageAbove100(df[PERCENTAGE_OF_NORMAL][i])}))

count_years_below_normal(df) ==
    NRows(Filter(df, {i \in 1..NRows(df) :
                          PercentageBelow100(df[PERCENTAGE_OF_NORMAL][i])}))

MainLastYear == StartYear + MainNumYears - 1

\* begin years tried by the script's callers: both ends of its table
MainYearArgs == (StartYear..(StartYear + MaxSpan)) \cup {MainLastYear}

\* the decades run() takes its normals from: 1970, 1980, 1990
RunDecades == {StartYear, StartYear + 10, StartYear + 20}

MainGetAverageYearlyRainfall ==
    /\ Idle
    /\ \E b \in MainYearArgs : \E e \in (b - 1)..(b + MaxSpan) :
           /\ op' = "main.get_average_yearly_rainfall"
           /\ req' = Range(Some(b), Some(e))
           /\ res' = Returned(main_get_average_yearly_rainfall(yearly_rainfall, b, e))
           /\ UNCHANGED <<yearly_rainfall, script_normal, monthly_rainfall>>

\* run(): "Normal 1970 - 2000" is get_average_yearly_rainfall(.., 1970, 2000)
RunNormal ==
    /\ Idle
    /\ \E y \in RunDecades :
           /\ op' = "main.run.normal"
           /\ req' = Range(Some(y), Some(y + 30))
           /\ res' = Returned(main_get_average_yearly_rainfall(yearly_rainfall, y, y + 30))
           /\ UNCHANGED <<yearly_rainfall, script_normal, monthly_rainfall>>

\* the normal handed over is an average the script computed before
AddDeviationFromNormal ==
    /\ Idle
    /\ \E b \in MainYearArgs \cup RunDecades : \E e \in {b, b + 1, b + 30} :
           LET nrm == main_get_average_yearly_rainfall(yearly_rainfall, b, e)
           IN  /\ op' = "main.add_deviation_from_normal"
               /\ req' = [Range(Some(b), Some(e)) EXCEPT !.normal = nrm]
               /\ yearly_rainfall' = add_deviation_from_normal(yearly_rainfall, nrm)
               /\ script_normal' = nrm
               /\ res' = Returned(NoneVal)
               /\ UNCHANGED monthly_rainfall

CountYearsAboveNormal ==
    /\ Idle
    /\ op' = "main.count_years_above_normal"
    /\ req' = NoReq
    /\ res' = IF PERCENTAGE_OF_NORMAL \in DOMAIN yearly_rainfall
              THEN Returned(Num(count_years_above_normal(yearly_rainfall)))
              ELSE Raised("KeyError")
    /\ UNCHANGED <<yearly_rainfall, script_normal, monthly_rainfall>>

CountYearsBelowNormal ==
    /\ Idle
    /\ op' = "main.count_years_below_normal"
    /\ req' = NoReq
    /\ res' = IF PERCENTAGE_OF_NORMAL \in DOMAIN yearly_rainfall
              THEN Returned(Num(count_years_below_normal(yearly_rainfall)))
              ELSE Raised("KeyError")
    /\ UNCHANGED <<yearly_rainfall, script_normal, monthly_rainfall>>

-----------------------------------------------------------------------------
(* Specification of the script *)

MainInit ==
    /\ \E pattern \in Patterns({0, 1, HighRain}) :
           yearly_rainfall = LoadedTable(pattern, MainNumYears)
    /\ op = "idle"
    /\ req = NoReq
    /\ res = NoRes
    /\ script_normal = NoneVal
    /\ monthly_rainfall = NoDataset

MainNext ==
    \/ MainGetAverageYearlyRainfall
    \/ RunNormal
    \/ AddDeviationFromNormal
    \/ CountYearsAboveNormal
    \/ CountYearsBelowNormal
    \/ Return

MainSpec == MainInit /\ [][MainNext]_vars

-----------------------------------------------------------------------------
(* Derived columns: linear regression, Savitzky-Golay filter, removal.      *)
(* A float the code does not round is held as the exact quotient it         *)
(* approximates.                                                            *)

\* the float num / den, den > 0
Ratio(num, den) == [kind |-> "ratio", v |-> <<num, den>>]
\* a bool, a tuple as returned values
Bool(b) == [kind |-> "bool", v |-> b]
Pair(a, b) == [kind |-> "pair", v |-> <<a, b>>]

RECURSIVE SumProdTo(_, _, _)
SumProdTo(s, t, n) == IF n = 0 THEN 0 ELSE s[n] * t[n] + SumProdTo(s, t, n - 1)

\* the values less their mean, times their number: n * (s[i] - mean(s))
Centred(s) == [i \in 1..Len(s) |-> Len(s) * s[i] - SumSeq(s)]

\* LinearRegression().fit(x, y): ordinary least squares with an intercept.
\* With d, e the centred x, y: slope = sum(d * e) / sum(d * d), and the value
\* predicted at x[i] is mean(y) + slope * (x[i] - mean(x)) = pnum[i] / pden.
\* A single sample has the slope 0 and is predicted as itself.
LinearFit(x, y) ==
    LET n == Len(x)
        d == Centred(x)
        e == Centred(y)
        Sdd == SumProdTo(d, d, n)
        Sde == SumProdTo(d, e, n)
    IN  IF Sdd = 0
        THEN [slope |-> Ratio(0, 1), pnum |-> [i \in 1..n |-> SumSeq(y)], pden |-> n]
        ELSE [slope |-> Ratio(Sde, Sdd),
              pnum |-> [i \in 1..n |-> SumSeq(y) * Sdd + Sde * d[i]],
              pden |-> n * Sdd]

\* reg.predict(x) rounded to the precision
RoundedPredictions(fit) == [i \in 1..Len(fit.pnum) |-> RoundQuot(fit.pnum[i], fit.pden)]

\* sklearn.metrics.r2_score(y_true, y_pred) on values in units:
\* 1 - sum((y - p)^2) / sum((y - mean(y))^2); nan with fewer than two samples;
\* for a constant y_true 1.0 when the prediction is perfect and 0.0 when not
r2_score(y_true, y_pred) ==
    LET n == Len(y_true)
        e == Centred(y_true)
        See == SumProdTo(e, e, n)
        r == [i \in 1..n |-> y_true[i] - y_pred[i]]
        SSres == SumProdTo(r, r, n)
    IN  IF n < 2 THEN NaN
        ELSE IF See = 0 THEN (IF SSres = 0 THEN Ratio(1, 1) ELSE Ratio(0, 1))
        ELSE Ratio(See - n * n * SSres, See)

\* a variant that hands the pair back as (slope, r2_score)
add_linear_regression_slope_first(df) ==
    LET fit == LinearFit(df[YEAR], df[RAINFALL])
        rounded == RoundedPredictions(fit)
    IN  [df |-> SetColumn(df, LINEAR_REGRESSION, [i \in 1..NRows(df) |-> Num(rounded[i])]),
         value |-> Pair(fit.slope, r2_score(df[RAINFALL], rounded))]

\* a variant that fits the line through the origin (no intercept)
add_linear_regression_no_intercept(df) ==
    LET n == NRows(df)
        x == [i \in 1..n |-> df[YEAR][i] - StartYear + 1]
        Sxx == SumProdTo(x, x, n)
        Sxy == SumProdTo(x, df[RAINFALL], n)
        rounded == [i \in 1..n |-> RoundQuot(Sxy * x[i], Sxx)]
    IN  [df |-> SetColumn(df, LINEAR_REGRESSION, [i \in 1..n |-> Num(rounded[i])]),
         value |-> Pair(r2_score(df[RAINFALL], rounded), Ratio(Sxy, Sxx))]

\* a variant that builds the table anew from Year and Rainfall
add_linear_regression_on_fresh_table(df) ==
    LET fit == LinearFit(df[YEAR], df[RAINFALL])
        rounded == RoundedPredictions(fit)
    IN  [df |-> SetColumn([c \in {YEAR, RAINFALL} |-> df[c]], LINEAR_REGRESSION,
                          [i \in 1..NRows(df) |-> Num(rounded[i])]),
         value |-> Pair(r2_score(df[RAINFALL], rounded), fit.slope)]

\* sets the column to the rounded predictions; returns (r2_score, slope),
\* the r2_score being of the rounded predictions
add_linear_regression(df) ==
    LET fit == LinearFit(df[YEAR], df[RAINFALL])
        rounded == RoundedPredictions(fit)
    IN  [df |-> SetColumn(df, LINEAR_REGRESSION, [i \in 1..NRows(df) |-> Num(rounded[i])]),
         value |-> Pair(r2_score(df[RAINFALL], rounded), fit.slope)]

\* a list as a returned value
List(s) == [kind |-> "list", v |-> s]

\* get_linear_regression(begin_year, end_year): the regression of the class on
\* the years of the range; ((r2_score, slope), the fitted values of the range).
\* The fit of no sample is an error of the library.
get_linear_regression(df, begin_year, end_year) ==
    LET yr == get_rainfall_within_year_interval(df, begin_year, Some(end_year))
        out == add_linear_regression([c \in {YEAR, RAINFALL} |-> yr[c]])
    IN  IF NRows(yr) = 0 THEN [status |-> "ValueError", value |-> NoneVal]
        ELSE Ok(Pair(out.value,
                     List([i \in 1..NRows(yr) |-> out.df[LINEAR_REGRESSION][i].v])))

GetLinearRegression ==
    /\ Idle
    /\ \E b \in (StartYear - 1)..(StartYear + MaxSpan) :
       \E e \in (b - 1)..(b + MaxSpan) :
           LET out == get_linear_regression(yearly_rainfall, b, e)
           IN  /\ op' = "get_linear_regression"
               /\ req' = Range(Some(b), Some(e))
               /\ res' = IF out.status = "ok" THEN Returned(out.value)
                         ELSE Raised(out.status)
               /\ UNCHANGED <<yearly_rainfall, script_normal, monthly_rainfall>>

\* the column of the script's regression
MAIN_LINEAR_REGRESSION == "Linear Regression"

\* metrics.r2_score(y, reg.predict(x)) of the fit itself, the predictions not
\* rounded: 1 - SSres / SStot, which for the least-squares line with an
\* intercept is sum(d * e)^2 / (sum(d * d) * sum(e * e)); a constant y is
\* predicted as itself, which r2_score answers with 1.0; nan with one sample
FitScore(x, y) ==
    LET n == Len(x)
        d == Centred(x)
        e == Centred(y)
        Sdd == SumProdTo(d, d, n)
        Sde == SumProdTo(d, e, n)
        See == SumProdTo(e, e, n)
    IN  IF n < 2 THEN NaN
        ELSE IF See = 0 THEN Ratio(1, 1)
        ELSE Ratio(Sde * Sde, Sdd * See)

\* main.py: sets the column to the predictions as they are, prints the
\* coefficient of determination and returns the table
apply_linear_regression_to_yearly_rainfall(df) ==
    LET fit == LinearFit(df[YEAR], df[RAINFALL])
        out == SetColumn(df, MAIN_LINEAR_REGRESSION,
                         [i \in 1..NRows(df) |-> Ratio(fit.pnum[i], fit.pden)])
    IN  [df |-> out, printed |-> FitScore(df[YEAR], df[RAINFALL])]

\* the outcome holds what was printed and the table returned
ApplyLinearRegressionToYearlyRainfall ==
    /\ Idle
    /\ LET out == apply_linear_regression_to_yearly_rainfall(yearly_rainfall)
       IN  /\ op' = "main.apply_linear_regression_to_yearly_rainfall"
           /\ req' = NoReq
           /\ yearly_rainfall' = out.df
           /\ res' = Returned(Pair(out.printed, Frame(out.df)))
           /\ UNCHANGED <<script_normal, monthly_rainfall>>

\* signal.savgol_filter(x, window_length = len(x), polyorder) with the window
\* over the whole series: the least-squares polynomial of the degree over the
\* series, at every position (the middle by the filter, the rest by the fit of
\* the edges); degree 0 is the mean, degree 1 the regression line
savgol_filter(x, window_length, polyorder) ==
    IF polyorder = 0
    THEN [i \in 1..window_length |-> Ratio(SumSeq(x), window_length)]
    ELSE LET fit == LinearFit([i \in 1..window_length |-> i], x)
         IN  [i \in 1..window_length |-> Ratio(fit.pnum[i], fit.pden)]

\* a variant that smooths the rainfall in place
add_savgol_filter_in_place(df) ==
    LET n == NRows(df)
        out == savgol_filter(df[RAINFALL], n, n \div 10)
    IN  SetColumn(df, RAINFALL, [i \in 1..n |-> RoundQuot(out[i].v[1], out[i].v[2])])

\* window_length = len(table), polyorder = len(table) // 10, then rounded
add_savgol_filter(df) ==
    LET n == NRows(df)
        out == savgol_filter(df[RAINFALL], n, n \div 10)
    IN  SetColumn(df, SAVITZKY_GOLAY_FILTER,
            [i \in 1..n |-> Num(RoundQuot(out[i].v[1], out[i].v[2]))])

\* DataFrame.pop(label): the table without the column
PopColumn(df, label) == [c \in DOMAIN df \ {label} |-> df[c]]

\* a variant that pops whatever label is not Year or Rainfall, a column or not
remove_column_without_membership_test(df, label) ==
    IF ~({YEAR, RAINFALL} \subseteq DOMAIN df) THEN [status |-> "KeyError", df |-> df]
    ELSE IF label \in {YEAR, RAINFALL}
    THEN [status |-> "ok", removed |-> FALSE, df |-> df]
    ELSE [status |-> "ok", removed |-> TRUE, df |-> PopColumn(df, label)]

\* a variant that only refuses the Year column
remove_column_keeping_year_only(df, label) ==
    IF ~({YEAR, RAINFALL} \subseteq DOMAIN df) THEN [status |-> "KeyError", df |-> df]
    ELSE IF label \notin DOMAIN df \ {YEAR}
    THEN [status |-> "ok", removed |-> FALSE, df |-> df]
    ELSE [status |-> "ok", removed |-> TRUE, df |-> PopColumn(df, label)]

\* False unless the label is a column other than Year and Rainfall, which is
\* then removed; columns.drop raises when Year or Rainfall is no column
remove_column(df, label) ==
    IF ~({YEAR, RAINFALL} \subseteq DOMAIN df) THEN [status |-> "KeyError", df |-> df]
    ELSE IF label \notin DOMAIN df \ {YEAR, RAINFALL}
    THEN [status |-> "ok", removed |-> FALSE, df |-> df]
    ELSE [status |-> "ok", removed |-> TRUE, df |-> PopColumn(df, label)]

\* get_standard_deviation(begin_year, end_year, label=...) with the column missing
\* read all the same
get_standard_deviation_of_label_unchecked(df, begin_year, end_year, label, weigh_by_average) ==
    IF label \notin DOMAIN df THEN {[status |-> "KeyError", value |-> NoneVal]}
    ELSE IF label = RAINFALL
    THEN get_standard_deviation(df, begin_year, end_year, weigh_by_average)
    ELSE LET yr == get_rainfall_within_year_interval(df, begin_year, end_year)
             n == NRows(yr)
             s == [i \in 1..n |-> yr[label][i].v]
         IN  IF n = 0 THEN {Ok(Num(0))}
             ELSE {Ok(Num(RoundSqrtDiv(n * SumSquaresTo(s, n) - SumSeq(s) * SumSeq(s), n)))}

\* get_standard_deviation(begin_year, end_year, label=..., weigh_by_average=...):
\* None when the table has no column of that label, else the deviation of the
\* column over the range
get_standard_deviation_of_label(df, begin_year, end_year, label, weigh_by_average) ==
    IF label \notin DOMAIN df THEN {Ok(NoneVal)}
    ELSE IF label = RAINFALL
    THEN get_standard_deviation(df, begin_year, end_year, weigh_by_average)
    ELSE LET yr == get_rainfall_within_year_interval(df, begin_year, end_year)
             n == NRows(yr)
             s == [i \in 1..n |-> yr[label][i].v]
         IN  IF n = 0 THEN {Ok(Num(0))}
             ELSE {Ok(Num(RoundSqrtDiv(n * SumSquaresTo(s, n) - SumSeq(s) * SumSeq(s), n)))}

\* the labels the deviation is asked for: Rainfall and the columns of rounded
\* figures in mm
DeviationLabels == {RAINFALL, LINEAR_REGRESSION, SAVITZKY_GOLAY_FILTER}

GetStandardDeviationOfLabel ==
    /\ Idle
    /\ \E b \in {StartYear, StartYear + 1}, e \in {None, Some(StartYear + 1)} :
       \E label \in DeviationLabels, w \in BOOLEAN :
           /\ w => (label = RAINFALL \/ label \notin DOMAIN yearly_rainfall)
           /\ \E out \in get_standard_deviation_of_label(yearly_rainfall, b, e, label, w) :
                  /\ op' = "get_standard_deviation(label)"
                  /\ req' = [Range(Some(b), e) EXCEPT !.weigh_by_average = w,
                                                      !.label = label]
                  /\ res' = [Returned(out.value) EXCEPT !.status = out.status]
                  /\ UNCHANGED <<yearly_rainfall, script_normal, monthly_rainfall>>

Labels == {YEAR, RAINFALL, PERCENTAGE_OF_NORMAL, LINEAR_REGRESSION,
           SAVITZKY_GOLAY_FILTER, KMEANS}

AddLinearRegression ==
    /\ Idle
    /\ LET out == add_linear_regression(yearly_rainfall)
       IN  /\ op' = "add_linear_regression"
           /\ req' = NoReq
           /\ yearly_rainfall' = out.df
           /\ res' = Returned(out.value)
           /\ UNCHANGED <<script_normal, monthly_rainfall>>

AddSavgolFilter ==
    /\ Idle
    /\ op' = "add_savgol_filter"
    /\ req' = NoReq
    /\ yearly_rainfall' = add_savgol_filter(yearly_rainfall)
    /\ res' = Returned(NoneVal)
    /\ UNCHANGED <<script_normal, monthly_rainfall>>

RemoveColumn ==
    /\ Idle
    /\ \E label \in Labels :
           LET out == remove_column(yearly_rainfall, label)
           IN  /\ op' = "remove_column"
               /\ req' = [NoReq EXCEPT !.label = label]
               /\ yearly_rainfall' = out.df
               /\ res' = IF out.status = "ok" THEN Returned(Bool(out.removed))
                         ELSE Raised(out.status)
               /\ UNCHANGED <<script_normal, monthly_rainfall>>

-----------------------------------------------------------------------------
(* Specification of the table: loaded once, then queries, additions and    *)
(* removals of derived columns in any order                                 *)

TableNumYears == 2 * HalfTable + 1

\* a dataset whose rainfall is slope * (year - starting_year) + first
LinearTable(slope, first, n) ==
    [c \in {YEAR, RAINFALL} |->
        IF c = YEAR THEN [i \in 1..n |-> StartYear + i - 1]
        ELSE [i \in 1..n |-> slope * (i - 1) + first]]

\* the same with the years of most rain first
FallingTable(slope, n) ==
    [c \in {YEAR, RAINFALL} |->
        IF c = YEAR THEN [i \in 1..n |-> StartYear + i - 1]
        ELSE [i \in 1..n |-> slope * (n - i)]]

TableInit ==
    /\ \/ \E pattern \in Patterns({0, MaxRain}) :
              yearly_rainfall = LoadedTable(pattern, TableNumYears)
       \/ \E slope \in 0..MaxSlope, first \in 0..1 :
              yearly_rainfall = LinearTable(slope, first, TableNumYears)
       \/ \E slope \in 1..MaxSlope : yearly_rainfall = FallingTable(slope, TableNumYears)
    /\ op = "idle"
    /\ req = NoReq
    /\ res = NoRes
    /\ script_normal = NoneVal
    /\ monthly_rainfall = NoDataset

TableNext ==
    \/ GetYearlyRainfall
    \/ GetRainfallWithinYearInterval
    \/ GetAverageYearlyRainfall
    \/ GetYearsBelowAverage
    \/ GetYearsAboveAverage
    \/ GetStandardDeviation
    \/ GetStandardDeviationOfLabel
    \/ AddPercentageOfNormal
    \/ AddLinearRegression
    \/ ApplyLinearRegressionToYearlyRainfall
    \/ GetLinearRegression
    \/ AddSavgolFilter
    \/ RemoveColumn
    \/ Return

TableSpec == TableInit /\ [][TableNext]_vars

-----------------------------------------------------------------------------
(* The columns of a table through additions, queries and removals *)

\* the greatest of the values of a sequence that is not empty
MaxOf(s) == CHOOSE v \in {s[i] : i \in DOMAIN s} : \A i \in DOMAIN s : s[i] <= v

\* add_kmeans(kmeans_clusters): sets the column of the cluster labels, a
\* label in 0..kmeans_clusters - 1 for every year, and returns the number of
\* clusters. Which year gets which label is the clustering's business: here
\* the years are labelled by their rainfall, in bands of equal width.
add_kmeans(df, kmeans_clusters) ==
    LET top == MaxOf(df[RAINFALL]) + 1
    IN  [df |-> SetColumn(df, KMEANS,
                    [i \in 1..NRows(df) |->
                        Num((df[RAINFALL][i] * kmeans_clusters) \div top)]),
         value |-> Num(kmeans_clusters)]

ClusterArgs == {2, 3}

AddKmeans ==
    /\ Idle
    /\ \E n \in ClusterArgs :
           LET out == add_kmeans(yearly_rainfall, n)
           IN  /\ op' = "add_kmeans"
               /\ req' = [NoReq EXCEPT !.n_clusters = Some(n)]
               /\ yearly_rainfall' = out.df
               /\ res' = Returned(out.value)
               /\ UNCHANGED <<script_normal, monthly_rainfall>>

\* DataFrame.to_csv(index=False): a header with the label of every column of
\* the frame, then one line per row with the row's cell of every column
\* (the order of the columns within a line is not modelled)
to_csv(df) ==
    [header |-> DOMAIN df,
     lines |-> [i \in 1..NRows(df) |-> [c \in DOMAIN df |-> df[c][i]]]]

Csv(text) == [kind |-> "csv", v |-> text]

\* export_as_csv(): self.yearly_rainfall.to_csv(path_or_buf=path, index=False)
export_as_csv(df) == to_csv(df)

ExportAsCsv ==
    /\ Idle
    /\ op' = "export_as_csv"
    /\ req' = NoReq
    /\ res' = Returned(Csv(export_as_csv(yearly_rainfall)))
    /\ UNCHANGED <<yearly_rainfall, script_normal, monthly_rainfall>>

ColumnInit ==
    /\ \/ \E pattern \in Patterns({0, MaxRain}) :
              yearly_rainfall = LoadedTable(pattern, TableNumYears)
       \/ yearly_rainfall = LinearTable(MaxSlope, 1, TableNumYears)
    /\ op = "idle"
    /\ req = NoReq
    /\ res = NoRes
    /\ script_normal = NoneVal
    /\ monthly_rainfall = NoDataset

ColumnNext ==
    \/ GetYearlyRainfall
    \/ GetAverageYearlyRainfall
    \/ GetStandardDeviationOfLabel
    \/ GetLinearRegression
    \/ AddPercentageOfNormal
    \/ AddLinearRegression
    \/ AddSavgolFilter
    \/ AddKmeans
    \/ RemoveColumn
    \/ ExportAsCsv
    \/ Return

ColumnSpec == ColumnInit /\ [][ColumnNext]_vars

-----------------------------------------------------------------------------
(* Loading the table from the monthly dataset                               *)
(* (src/back/core/utils/functions/dataframe_operations.py and               *)
(* src/src/classes/yearly_rainfall.py, seasonal_rainfall.py)                *)

\* the dataset has DatasetYears years, the first one before starting_year
DatasetYears == 3

\* the cells of the dataset have one decimal more than the precision: a cell
\* is held as its number of tenths of a unit
RawUnit == (10 ^ (rounding_precision + 1)) \div Scale

JANUARY == 1
DECEMBER == 12
Months == JANUARY..DECEMBER

\* Season.get_months(): the three months of a season, winter wrapping over the
\* end of the year
Seasons == {"winter", "spring", "summer", "fall"}
get_months(season) ==
    CASE season = "winter" -> <<12, 1, 2>>
      [] season = "spring" -> <<3, 4, 5>>
      [] season = "summer" -> <<6, 7, 8>>
      [] season = "fall" -> <<9, 10, 11>>

\* 2 ^ (m - 1) tenths of a unit and one more: the months of a sum show in it
MonthCell(m) == (2 ^ (m - 1)) * RawUnit + 1

\* a dataset of DatasetYears years from starting_year - 1 on, a year being wet
\* (every month with its own depth) or dry
Dataset(wet) ==
    [c \in 1..(DECEMBER + 1) |->
        IF c = 1 THEN [i \in 1..DatasetYears |-> StartYear - 2 + i]
        ELSE [i \in 1..DatasetYears |-> wet[i] * MonthCell(c - 1)]]

Datasets == {Dataset(wet) : wet \in [1..DatasetYears -> 0..1]}

\* pd.DataFrame(): no column, no row
EmptyDataFrame == <<>>

\* a dataset without its month columns
YearsOnly == <<[i \in 1..DatasetYears |-> StartYear - 2 + i]>>

\* the number of rows of a dataset
DatasetRows(df) == IF Len(df) = 0 THEN 0 ELSE Len(df[1])

\* df.iloc[:, a:b]: the columns at the positions a to b - 1, counted from 0,
\* those that exist; b = None is the end
ILocColumns(df, a, b) ==
    LET last == IF IsNone(b) \/ Get(b) > Len(df) THEN Len(df) ELSE Get(b)
    IN  SubSeq(df, a + 1, last)

RECURSIVE RowSumTo(_, _, _)
RowSumTo(cols, i, k) == IF k = 0 THEN 0 ELSE cols[k][i] + RowSumTo(cols, i, k - 1)

\* cols.sum(axis="columns"): for every row the sum of its cells, 0 without columns
SumColumns(cols, n) == [i \in 1..n |-> RowSumTo(cols, i, Len(cols))]

\* concat_columns([years, sums]).set_axis([Year, Rainfall], axis="columns"),
\* the starting year filter, the index reset and the rounding; set_axis fails
\* on the single column that the concatenation of nothing and a Series has
YearlyTable(df, rainfall, starting_year) ==
    LET n == DatasetRows(df)
        yearly_rainfall_0 == [c \in {YEAR, RAINFALL} |->
                                 IF c = YEAR THEN df[1] ELSE SumColumns(rainfall, n)]
        kept == IF IsNone(starting_year) THEN yearly_rainfall_0
                ELSE get_rainfall_within_year_interval(yearly_rainfall_0,
                                                       Get(starting_year), None)
    IN  IF Len(df) = 0 THEN [status |-> "ValueError", df |-> <<>>]
        ELSE [status |-> "ok",
              df |-> [c \in {YEAR, RAINFALL} |->
                         IF c = YEAR THEN kept[YEAR]
                         ELSE [i \in 1..NRows(kept) |-> RoundDiv(kept[RAINFALL][i], RawUnit)]]]

\* a variant that keeps the years of the dataset before starting_year
retrieve_rainfall_data_with_constraints_every_year(df, starting_year, start_month, end_month) ==
    LET rainfall ==
            IF ~IsNone(end_month) /\ Get(end_month) < start_month
            THEN ILocColumns(df, start_month, Some(start_month + 1))
                     \o ILocColumns(df, 1, Some(Get(end_month) + 1))
            ELSE ILocColumns(df, start_month,
                             Some((IF IsNone(end_month) THEN start_month
                                   ELSE Get(end_month)) + 1))
    IN  YearlyTable(df, rainfall, None)

\* dataframe_operations.py: with end_month < start_month the column of
\* start_month and the columns 1 to end_month; else the columns start_month to
\* end_month, to start_month without end_month
retrieve_rainfall_data_with_constraints(df, starting_year, start_month, end_month) ==
    LET rainfall ==
            IF ~IsNone(end_month) /\ Get(end_month) < start_month
            THEN ILocColumns(df, start_month, Some(start_month + 1))
                     \o ILocColumns(df, 1, Some(Get(end_month) + 1))
            ELSE ILocColumns(df, start_month,
                             Some((IF IsNone(end_month) THEN start_month
                                   ELSE Get(end_month)) + 1))
    IN  YearlyTable(df, rainfall, Some(starting_year))

\* the class: with end_month < start_month the column of start_month and the
\* columns 1 to end_month - 1; else the columns start_month to end_month - 1,
\* to the last column without end_month
load_rainfall(df, starting_year, start_month, end_month) ==
    LET rainfall ==
            IF ~IsNone(end_month) /\ Get(end_month) < start_month
            THEN ILocColumns(df, start_month, Some(start_month + 1))
                     \o ILocColumns(df, 1, end_month)
            ELSE ILocColumns(df, start_month, end_month)
    IN  YearlyTable(df, rainfall, Some(starting_year))

\* the table of an object that has not been made
NoTable == <<>>

MonthArgs == {<<s, e>> : s \in Months, e \in {None} \cup {Some(m) : m \in Months}}

LoadRequest(s, e) == [NoReq EXCEPT !.start_month = Some(s), !.end_month = e]

\* the outcome of a function that returns a table
TableOutcome(out) ==
    IF out.status = "ok" THEN Returned(Frame(out.df)) ELSE Raised(out.status)

RetrieveRainfallDataWithConstraints ==
    /\ Idle
    /\ \E a \in MonthArgs :
           /\ op' = "retrieve_rainfall_data_with_constraints"
           /\ req' = LoadRequest(a[1], a[2])
           /\ res' = TableOutcome(retrieve_rainfall_data_with_constraints(
                                      monthly_rainfall, StartYear, a[1], a[2]))
           /\ UNCHANGED <<yearly_rainfall, script_normal, monthly_rainfall>>

LoadRainfall ==
    /\ Idle
    /\ \E a \in MonthArgs :
           /\ op' = "load_rainfall"
           /\ req' = LoadRequest(a[1], a[2])
           /\ res' = TableOutcome(load_rainfall(monthly_rainfall, StartYear, a[1], a[2]))
           /\ UNCHANGED <<yearly_rainfall, script_normal, monthly_rainfall>>

\* an object that an exception left unmade has no table
Made(out) ==
    /\ yearly_rainfall' = IF out.status = "ok" THEN out.df ELSE yearly_rainfall
    /\ res' = IF out.status = "ok" THEN Returned(NoneVal) ELSE Raised(out.status)

\* YearlyRainfall.load_yearly_rainfall of the class: load_rainfall(JANUARY)
LoadYearlyRainfall ==
    /\ Idle
    /\ op' = "load_yearly_rainfall"
    /\ req' = LoadRequest(JANUARY, None)
    /\ Made(load_rainfall(monthly_rainfall, StartYear, JANUARY, None))
    /\ UNCHANGED <<script_normal, monthly_rainfall>>

\* SeasonalRainfall.load_yearly_rainfall of the class:
\* load_rainfall(first month, third month + 1)
LoadSeasonalRainfall ==
    /\ Idle
    /\ \E season \in Seasons :
           /\ op' = "seasonal.load_yearly_rainfall"
           /\ req' = [LoadRequest(get_months(season)[1], Some(get_months(season)[3] + 1))
                          EXCEPT !.season = Some(season)]
           /\ Made(load_rainfall(monthly_rainfall, StartYear, get_months(season)[1],
                                 Some(get_months(season)[3] + 1)))
           /\ UNCHANGED <<script_normal, monthly_rainfall>>

\* the dataset has its Year column and its twelve month columns
HasYearAndMonths(df) == Len(df) = DECEMBER + 1

\* a variant that loads without looking at the format
NewRainfall_without_format_check(df, starting_year, start_month, end_month) ==
    retrieve_rainfall_data_with_constraints(df, starting_year, start_month, end_month)

\* the constructor of the models: DataFormatError for a dataset that is not
\* of the format, else the table is loaded for the months of the model
NewRainfall(df, starting_year, start_month, end_month) ==
    IF ~HasYearAndMonths(df) THEN [status |-> "DataFormatError", df |-> <<>>]
    ELSE retrieve_rainfall_data_with_constraints(df, starting_year, start_month, end_month)

\* YearlyRainfall(raw_data, start_year=..., round_precision=...)
NewYearlyRainfall ==
    /\ Idle
    /\ op' = "YearlyRainfall"
    /\ req' = LoadRequest(JANUARY, Some(DECEMBER))
    /\ Made(NewRainfall(monthly_rainfall, StartYear, JANUARY, Some(DECEMBER)))
    /\ UNCHANGED <<script_normal, monthly_rainfall>>

\* MonthlyRainfall(raw_data, month, start_year=..., round_precision=...)
NewMonthlyRainfall ==
    /\ Idle
    /\ \E month \in Months :
           /\ op' = "MonthlyRainfall"
           /\ req' = LoadRequest(month, None)
           /\ Made(NewRainfall(monthly_rainfall, StartYear, month, None))
           /\ UNCHANGED <<script_normal, monthly_rainfall>>

\* SeasonalRainfall(raw_data, season, start_year=..., round_precision=...):
\* load_rainfall(season.get_months()[0], season.get_months()[-1])
NewSeasonalRainfall ==
    /\ Idle
    /\ \E season \in Seasons :
           /\ op' = "SeasonalRainfall"
           /\ req' = [LoadRequest(get_months(season)[1], Some(get_months(season)[3]))
                          EXCEPT !.season = Some(season)]
           /\ Made(NewRainfall(monthly_rainfall, StartYear, get_months(season)[1],
                               Some(get_months(season)[3])))
           /\ UNCHANGED <<script_normal, monthly_rainfall>>

LoadInit ==
    /\ monthly_rainfall \in Datasets \cup {EmptyDataFrame, YearsOnly}
    /\ yearly_rainfall = NoTable
    /\ op = "idle"
    /\ req = NoReq
    /\ res = NoRes
    /\ script_normal = NoneVal

LoadNext ==
    \/ RetrieveRainfallDataWithConstraints
    \/ LoadRainfall
    \/ LoadYearlyRainfall
    \/ LoadSeasonalRainfall
    \/ NewYearlyRainfall
    \/ NewMonthlyRainfall
    \/ NewSeasonalRainfall
    \/ Return

LoadSpec == LoadInit /\ [][LoadNext]_vars

-----------------------------------------------------------------------------
(* What the claims speak of: the years of a range and their rainfall *)

\* positions of the rows of the table whose year lies in [b, e]
RowsIn(df, b, e) == {i \in 1..NRows(df) : b <= df[YEAR][i] /\ df[YEAR][i] <= e}

RECURSIVE RainOf(_, _)
\* total rainfall of the rows at the positions of I
RainOf(df, I) ==
    IF I = {} THEN 0
    ELSE LET i == CHOOSE x \in I : TRUE
         IN  df[RAINFALL][i] + RainOf(df, I \ {i})

\* r is total / n rounded to a unit: no further than half a unit from it
IsRounded(r, total, n) == 2 * Abs(r * n - total) <= n

ReqBegin == Get(req.begin_year)
ReqEnd == Get(req.end_year)

\* the last call had both years, begin_year <= end_year
CalledOnRange(name) ==
    /\ op = name
    /\ ~IsNone(req.begin_year) /\ ~IsNone(req.end_year)
    /\ ReqBegin <= ReqEnd

-----------------------------------------------------------------------------
(* C1: whenever at least one year of the table lies in [begin_year,       *)
(* end_year], begin_year <= end_year, get_average_yearly_rainfall returns  *)
(* the sum of the rainfall of the years of the range divided by their      *)
(* number, rounded to the precision.                                       *)
C1_AverageIsSumOverCount ==
    (CalledOnRange("get_average_yearly_rainfall")
        /\ RowsIn(yearly_rainfall, ReqBegin, ReqEnd) /= {})
    => LET I == RowsIn(yearly_rainfall, ReqBegin, ReqEnd)
       IN  /\ res.status = "ok"
           /\ IsNum(res.value)
           /\ IsRounded(res.value.v, RainOf(yearly_rainfall, I), Cardinality(I))

\* an average over several years whose mean is not a whole number of units
C1_Witness ==
    /\ CalledOnRange("get_average_yearly_rainfall")
    /\ LET I == RowsIn(yearly_rainfall, ReqBegin, ReqEnd)
       IN  /\ Cardinality(I) >= 3
           /\ RainOf(yearly_rainfall, I) % Cardinality(I) /= 0
           /\ res.value.v > 0

-----------------------------------------------------------------------------
(* C2: for begin_year <= end_year inside the table's span the script's     *)
(* get_average_yearly_rainfall returns the sum of the rainfall of the years *)
(* of [begin_year, end_year] divided by end_year - begin_year + 1, also     *)
(* when begin_year = end_year.                                              *)
C2_MainAverageIsSumOverCount ==
    (CalledOnRange("main.get_average_yearly_rainfall")
        /\ StartYear <= ReqBegin /\ ReqEnd <= MainLastYear)
    => /\ IsNum(res.value)
       /\ IsRounded(res.value.v,
                    RainOf(yearly_rainfall, RowsIn(yearly_rainfall, ReqBegin, ReqEnd)),
                    ReqEnd - ReqBegin + 1)

RECURSIVE MinRain(_, _)
MinRain(df, I) ==
    LET i == CHOOSE x \in I : TRUE
    IN  IF I = {i} THEN df[RAINFALL][i]
        ELSE LET m == MinRain(df, I \ {i})
             IN  IF df[RAINFALL][i] < m THEN df[RAINFALL][i] ELSE m

RECURSIVE MaxRainOf(_, _)
MaxRainOf(df, I) ==
    LET i == CHOOSE x \in I : TRUE
    IN  IF I = {i} THEN df[RAINFALL][i]
        ELSE LET m == MaxRainOf(df, I \ {i})
             IN  IF df[RAINFALL][i] > m THEN df[RAINFALL][i] ELSE m

TableLastYear == yearly_rainfall[YEAR][NRows(yearly_rainfall)]

\* the last call was an average over a valid range: begin <= end, inside the span
AverageOverValidRange ==
    /\ \/ CalledOnRange("get_average_yearly_rainfall")
       \/ CalledOnRange("main.get_average_yearly_rainfall")
    /\ StartYear <= ReqBegin /\ ReqEnd <= TableLastYear

(* C3: the average returned for a valid year range is at least the least   *)
(* and at most the greatest yearly rainfall of the years of the range.      *)
C3_AverageBetweenMinAndMax ==
    AverageOverValidRange
    => LET I == RowsIn(yearly_rainfall, ReqBegin, ReqEnd)
       IN  /\ IsNum(res.value)
           /\ MinRain(yearly_rainfall, I) <= res.value.v
           /\ res.value.v <= MaxRainOf(yearly_rainfall, I)

(* C5 (the script): the normal run() computes for the start year y is the  *)
(* average over exactly the 30 years y .. y + 29.                          *)
C5_NormalIsThirtyYearAverage ==
    (op = "main.run.normal")
    => /\ IsNum(res.value)
       /\ IsRounded(res.value.v,
                    RainOf(yearly_rainfall,
                           RowsIn(yearly_rainfall, ReqBegin, ReqBegin + NormalSpan)),
                    NormalSpan + 1)

\* positions of the years whose rainfall is above / below the value nrm
RowsAbove(df, I, nrm) == {i \in I : df[RAINFALL][i] > nrm}
RowsBelow(df, I, nrm) == {i \in I : df[RAINFALL][i] < nrm}

AllRows(df) == 1..NRows(df)

(* C9 (the script): count_years_above_normal is the number of years whose  *)
(* rainfall is strictly greater than the normal and count_years_below_normal *)
(* the number of years whose rainfall is strictly less.                     *)
C9_MainCountsAreStrict ==
    (res.status = "ok" /\ IsNum(script_normal))
    => /\ (op = "main.count_years_above_normal"
            => res.value.v = Cardinality(RowsAbove(yearly_rainfall,
                                 AllRows(yearly_rainfall), script_normal.v)))
       /\ (op = "main.count_years_below_normal"
            => res.value.v = Cardinality(RowsBelow(yearly_rainfall,
                                 AllRows(yearly_rainfall), script_normal.v)))
-----------------------------------------------------------------------------
\* no year of the table lies in the range of the last call (begin_year given,
\* end_year given or not)
NoYearInRange ==
    /\ ~IsNone(req.begin_year)
    /\ \A i \in 1..NRows(yearly_rainfall) :
           \/ yearly_rainfall[YEAR][i] < ReqBegin
           \/ (~IsNone(req.end_year) /\ yearly_rainfall[YEAR][i] > ReqEnd)

AverageOrDeviation == {"get_average_yearly_rainfall", "get_standard_deviation"}

(* C4: when no year of the table lies in the requested range (begin_year > *)
(* end_year, or a range outside the table), the average and the standard    *)
(* deviation return 0 without an error, and the table is left unchanged.    *)
C4_EmptyRangeGivesZero ==
    /\ []((op \in AverageOrDeviation /\ NoYearInRange)
             => (res.status = "ok" /\ res.value = Num(0)))
    /\ [][(op' \in AverageOrDeviation /\ NoYearInRange')
             => yearly_rainfall' = yearly_rainfall]_vars

\* an average asked for an inverted range inside a table that has rain
C4_Witness ==
    /\ op = "get_average_yearly_rainfall"
    /\ NoYearInRange
    /\ ~IsNone(req.end_year)
    /\ ReqEnd < ReqBegin
    /\ StartYear <= ReqEnd /\ ReqBegin <= TableLastYear
    /\ \A i \in 1..NRows(yearly_rainfall) : yearly_rainfall[RAINFALL][i] > 0
    /\ res.value = Num(0)
-----------------------------------------------------------------------------
\* the average and the normal a request for a relative distance speaks of
ReqAverage ==
    get_average_yearly_rainfall(yearly_rainfall, req.begin_year,
                                Some(EndOrLast(req.end_year)))
ReqNormal ==
    get_average_yearly_rainfall(yearly_rainfall, req.normal_year,
                                Some(Get(req.normal_year) + NormalSpan))

RelativeDistanceComputed ==
    /\ op = "/rainfall/relative_distance_to_normal"
    /\ res.computed
    /\ ReqNormal > 0

(* C6: the relative distance to normal is (average of the value range -    *)
(* normal) / normal * 100, rounded to the precision, for every value range  *)
(* and every normal > 0: 0 when the average equals the normal, 100 when it  *)
(* is twice the normal, -50 when it is half the normal.                     *)
C6_RelativeDistanceFormula ==
    RelativeDistanceComputed
    => /\ res.status = "ok"
       /\ IsNum(res.value)
       /\ IsRounded(res.value.v, (ReqAverage - ReqNormal) * 100 * Scale, ReqNormal)
       /\ (ReqAverage = ReqNormal => res.value.v = 0)
       /\ (ReqAverage = 2 * ReqNormal => res.value.v = 100 * Scale)
       /\ (2 * ReqAverage = ReqNormal => res.value.v = (-50) * Scale)

\* a relative distance of an average that is half the normal
C6_Witness ==
    /\ RelativeDistanceComputed
    /\ 2 * ReqAverage = ReqNormal
    /\ res.value = Num((-50) * Scale)

\* the other two cases happen as well
C6_AverageEqualsNormal ==
    RelativeDistanceComputed /\ ReqAverage = ReqNormal /\ res.value = Num(0)
C6_AverageTwiceNormal ==
    RelativeDistanceComputed /\ ReqAverage = 2 * ReqNormal /\ res.value = Num(100 * Scale)

-----------------------------------------------------------------------------
(* C7: an operation that divides by a normal that is 0 fails with an       *)
(* explicit error: add_percentage_of_normal called on a range whose average *)
(* is 0 does not return normally.                                           *)
C7_ZeroNormalFailsExplicitly ==
    (op = "add_percentage_of_normal"
        /\ get_average_yearly_rainfall(yearly_rainfall, req.begin_year, req.end_year) = 0)
    => res.status /= "ok"

-----------------------------------------------------------------------------
\* the routes that take begin_year and end_year
RangeRoutes ==
    {"/rainfall/average", "/rainfall/relative_distance_to_normal",
     "/rainfall/standard_deviation", "/year/below_normal", "/year/above_normal",
     "/csv/rainfall_by_year", "/graph/rainfall_by_year", "/graph/rainfall_averages",
     "/graph/rainfall_linreg_slopes", "/graph/relative_distances_to_normal"}

(* C8: every route that takes begin_year and end_year answers a request    *)
(* whose begin_year is greater than end_year (the last available year when  *)
(* end_year is missing) with an error, and computes nothing from the data.  *)
C8_InvertedRangeRejected ==
    (op \in RangeRoutes /\ ReqBegin > EndOrLast(req.end_year))
    => (res.status /= "ok" /\ ~res.computed)

-----------------------------------------------------------------------------
BelowOrAboveAverage == {"get_years_below_average", "get_years_above_average"}

(* C10: for every range [begin_year, end_year] the number of years below   *)
(* the reference value and the number of years above it are each at least 0 *)
(* and at most end_year - begin_year + 1, and their sum is at most the      *)
(* number of years of the table in the range.                               *)
C10_CountsWithinRange ==
    \A name \in BelowOrAboveAverage :
        CalledOnRange(name)
        => LET below == IF name = "get_years_below_average" THEN res.value.v
                        ELSE get_years_below_average(yearly_rainfall,
                                                     req.begin_year, req.end_year)
               above == IF name = "get_years_above_average" THEN res.value.v
                        ELSE get_years_above_average(yearly_rainfall,
                                                     req.begin_year, req.end_year)
           IN  /\ IsNum(res.value)
               /\ 0 <= res.value.v
               /\ res.value.v <= ReqEnd - ReqBegin + 1
               /\ below + above
                      <= Cardinality(RowsIn(yearly_rainfall, ReqBegin, ReqEnd))

\* years below the average counted in a range that holds years below, above
\* and, beyond the range, more years below
C10_Witness ==
    /\ CalledOnRange("get_years_below_average")
    /\ StartYear < ReqBegin /\ ReqEnd < TableLastYear
    /\ res.value.v >= 1
    /\ get_years_above_average(yearly_rainfall, req.begin_year, req.end_year) >= 1
-----------------------------------------------------------------------------
(* C11: for every table whose rainfall is non-negative and every normal    *)
(* > 0, the relative distance to normal of any year range is at least      *)
(* -100.0.                                                                  *)
C11_RelativeDistanceAtLeastMinus100 ==
    (RelativeDistanceComputed
        /\ \A i \in AllRows(yearly_rainfall) : yearly_rainfall[RAINFALL][i] >= 0)
    => (IsNum(res.value) /\ res.value.v >= (-100) * Scale)

\* the least distance: a range without rain against a normal with rain
C11_Witness ==
    /\ RelativeDistanceComputed
    /\ ReqAverage = 0
    /\ res.value = Num((-100) * Scale)

\* an average above twice the normal happens as well
C11_AverageAboveTwiceNormal == RelativeDistanceComputed /\ ReqAverage > 2 * ReqNormal
-----------------------------------------------------------------------------
Selections == {"get_yearly_rainfall", "get_rainfall_within_year_interval"}

\* positions of the rows whose year is in the range asked for, a year that is
\* not given setting no limit
Selected(df) ==
    {i \in AllRows(df) :
        /\ IsNone(req.begin_year) \/ df[YEAR][i] >= ReqBegin
        /\ IsNone(req.end_year) \/ df[YEAR][i] <= ReqEnd}

(* C12: the selection of a year range returns exactly the rows of the table *)
(* whose year y satisfies begin_year <= y <= end_year, in table order; a    *)
(* range inside the table's span has end_year - begin_year + 1 rows;        *)
(* without end_year every row with year >= begin_year is returned.          *)
C12_SelectionIsTheInclusiveRange ==
    (op \in Selections)
    => LET out == res.value.v
           I == Selected(yearly_rainfall)
       IN  /\ res.value.kind = "frame"
           /\ DOMAIN out = DOMAIN yearly_rainfall
           /\ NRows(out) = Cardinality(I)
           /\ \A k \in 1..NRows(out) :
                  /\ \E i \in I : \A c \in DOMAIN out : out[c][k] = yearly_rainfall[c][i]
                  /\ k > 1 => out[YEAR][k - 1] < out[YEAR][k]
           /\ (CalledOnRange(op) /\ StartYear <= ReqBegin /\ ReqEnd <= TableLastYear)
                  => NRows(out) = ReqEnd - ReqBegin + 1

\* a selection of several years strictly inside the table
C12_Witness ==
    /\ CalledOnRange("get_rainfall_within_year_interval")
    /\ StartYear < ReqBegin /\ ReqBegin < ReqEnd /\ ReqEnd < TableLastYear
    /\ NRows(res.value.v) = ReqEnd - ReqBegin + 1
    /\ res.value.v[YEAR][1] = ReqBegin

\* a selection without end_year reaches the last year of the table
C12_WithoutEndYear ==
    /\ op \in Selections /\ IsNone(req.end_year) /\ ~IsNone(req.begin_year)
    /\ StartYear < ReqBegin /\ ReqBegin < TableLastYear
    /\ res.value.v[YEAR][NRows(res.value.v)] = TableLastYear
-----------------------------------------------------------------------------
(* C13: remove_column called with Year or Rainfall returns False and       *)
(* leaves the table unchanged; with the label of a derived column that is   *)
(* present it returns True, the column is absent afterwards and all other   *)
(* columns are unchanged; with a label that is no column of the table it    *)
(* returns False and changes nothing.                                       *)
C13_RemoveColumnContract ==
    [][(op' = "remove_column")
        => LET label == req'.label
               before == yearly_rainfall
               after == yearly_rainfall'
           IN  /\ res'.status = "ok"
               /\ (label \in {YEAR, RAINFALL} \/ label \notin DOMAIN before)
                      => (res'.value = Bool(FALSE) /\ after = before)
               /\ (label \in DOMAIN before \ {YEAR, RAINFALL})
                      => /\ res'.value = Bool(TRUE)
                         /\ DOMAIN after = DOMAIN before \ {label}
                         /\ \A c \in DOMAIN after : after[c] = before[c]]_vars

\* a derived column was removed while another derived column stays
C13_Witness ==
    /\ op = "remove_column"
    /\ req.label = SAVITZKY_GOLAY_FILTER
    /\ res.value = Bool(TRUE)
    /\ SAVITZKY_GOLAY_FILTER \notin DOMAIN yearly_rainfall
    /\ PERCENTAGE_OF_NORMAL \in DOMAIN yearly_rainfall

\* Rainfall was asked to be removed and is still there
C13_RainfallRefused ==
    /\ op = "remove_column" /\ req.label = RAINFALL
    /\ res.value = Bool(FALSE) /\ RAINFALL \in DOMAIN yearly_rainfall

-----------------------------------------------------------------------------
(* C14: adding a derived column is idempotent: after add_percentage_of_    *)
(* normal (same range), add_linear_regression or add_savgol_filter, the     *)
(* same addition applied once more leaves the table as it is; after         *)
(* remove_column the same removal applied once more returns False and       *)
(* leaves the table as it is.                                               *)
C14_AddAndRemoveAreIdempotent ==
    /\ (op = "add_percentage_of_normal")
           => add_percentage_of_normal(yearly_rainfall, req.begin_year, req.end_year)
                  = yearly_rainfall
    /\ (op = "add_linear_regression")
           => add_linear_regression(yearly_rainfall).df = yearly_rainfall
    /\ (op = "add_savgol_filter")
           => add_savgol_filter(yearly_rainfall) = yearly_rainfall
    /\ (op = "remove_column" /\ res.status = "ok")
           => LET again == remove_column(yearly_rainfall, req.label)
              IN  again.status = "ok" /\ ~again.removed /\ again.df = yearly_rainfall

\* a derived column that was present has just been removed
C14_Witness ==
    /\ op = "remove_column"
    /\ res.value = Bool(TRUE)
    /\ req.label = LINEAR_REGRESSION
    /\ LINEAR_REGRESSION \notin DOMAIN yearly_rainfall

\* percentages of a normal with rain have just been added to a table that has
\* the two other derived columns
C14_PercentagesAdded ==
    /\ op = "add_percentage_of_normal"
    /\ DOMAIN yearly_rainfall = Labels \ {KMEANS}
    /\ \E i \in AllRows(yearly_rainfall) :
           yearly_rainfall[PERCENTAGE_OF_NORMAL][i].v > 100 * Scale

-----------------------------------------------------------------------------
\* the table has its two columns, ascending years and non-negative rainfall
WellFormedTable ==
    /\ {YEAR, RAINFALL} \subseteq DOMAIN yearly_rainfall
    /\ Len(yearly_rainfall[RAINFALL]) = Len(yearly_rainfall[YEAR])
    /\ \A i \in AllRows(yearly_rainfall) :
           /\ yearly_rainfall[RAINFALL][i] >= 0
           /\ i > 1 => yearly_rainfall[YEAR][i - 1] < yearly_rainfall[YEAR][i]

(* C15: in every state reachable after load by queries, additions and      *)
(* removals of derived columns, the table has a Year and a Rainfall column, *)
(* the years are strictly ascending (so unique), every rainfall is          *)
(* non-negative, and Year and Rainfall hold the values of the load.         *)
C15_YearAndRainfallStayAsLoaded ==
    /\ []WellFormedTable
    /\ [][/\ yearly_rainfall'[YEAR] = yearly_rainfall[YEAR]
          /\ yearly_rainfall'[RAINFALL] = yearly_rainfall[RAINFALL]]_vars

\* a table with rain that got its three derived columns
C15_Witness ==
    /\ DOMAIN yearly_rainfall = Labels \ {KMEANS}
    /\ \E i \in AllRows(yearly_rainfall) : yearly_rainfall[RAINFALL][i] > 0
    /\ \E i \in AllRows(yearly_rainfall) :
           yearly_rainfall[SAVITZKY_GOLAY_FILTER][i] /= Num(yearly_rainfall[RAINFALL][i])
-----------------------------------------------------------------------------
\* the table as loaded: its Year and Rainfall columns alone
Loaded(df) == [c \in {YEAR, RAINFALL} |-> df[c]]

Queries ==
    {"get_yearly_rainfall", "get_rainfall_within_year_interval",
     "get_average_yearly_rainfall", "get_years_below_average",
     "get_years_above_average", "get_standard_deviation"}

\* what the query of the state, with its arguments, returns on the table df
Answers(df) ==
    CASE op = "get_yearly_rainfall"
           -> {Frame(get_yearly_rainfall(df, req.begin_year, req.end_year))}
      [] op = "get_rainfall_within_year_interval"
           -> {Frame(get_rainfall_within_year_interval(df, ReqBegin, req.end_year))}
      [] op = "get_average_yearly_rainfall"
           -> {Num(get_average_yearly_rainfall(df, req.begin_year, req.end_year))}
      [] op = "get_years_below_average"
           -> {Num(get_years_below_average(df, req.begin_year, req.end_year))}
      [] op = "get_years_above_average"
           -> {Num(get_years_above_average(df, req.begin_year, req.end_year))}
      [] op = "get_standard_deviation"
           -> {out.value : out \in get_standard_deviation(df, ReqBegin, req.end_year,
                                                          req.weigh_by_average)}

(* C16 as stated: the result of each query (year-range selection, average, *)
(* years above and below, standard deviation) depends only on the loaded    *)
(* Year and Rainfall data and its arguments: it is the value the same query *)
(* returns on the table as loaded, whatever was executed before.            *)
C16_ResultsDependOnLoadedDataOnly ==
    (op \in Queries) => res.value \in Answers(Loaded(yearly_rainfall))

(* C16 as amended: each query leaves the table unchanged; the average, the *)
(* years above and below and the standard deviation are the values the same *)
(* query returns on the table as loaded; the year-range selection returns   *)
(* the rows it returns on the table as loaded, with their Year and Rainfall *)
(* cells, together with their cells of the derived columns the table has.   *)
C16_QueriesAreSideEffectFree ==
    /\ [][(op' \in Queries) => yearly_rainfall' = yearly_rainfall]_vars
    /\ []((op \in Queries \ Selections)
             => res.value \in Answers(Loaded(yearly_rainfall)))
    /\ []((op \in Selections)
             => /\ Frame(Loaded(res.value.v)) \in Answers(Loaded(yearly_rainfall))
                /\ DOMAIN res.value.v = DOMAIN yearly_rainfall)

\* years above the average counted on a table that has percentages of another
\* range, some of them above 100 for years that are not above the average
C16_Witness ==
    /\ op = "get_years_above_average"
    /\ PERCENTAGE_OF_NORMAL \in DOMAIN yearly_rainfall
    /\ res.value.v < Cardinality({i \in Selected(yearly_rainfall) :
                         yearly_rainfall[PERCENTAGE_OF_NORMAL][i].v > 100 * Scale})
-----------------------------------------------------------------------------
Deviations == {"get_standard_deviation", "/rainfall/standard_deviation"}

\* the rainfall of the years of the range asked for, end_year defaulting to the
\* last year
RangeRainfall ==
    get_rainfall_within_year_interval(yearly_rainfall, ReqBegin,
                                      Some(EndOrLast(req.end_year)))[RAINFALL]

\* n * n * the population variance of the values of s
SquaredDeviations(s) == Len(s) * SumSquaresTo(s, Len(s)) - SumSeq(s) * SumSeq(s)

\* r is sqrt(v) / d to the nearest unit: |r - sqrt(v) / d| <= 1/2
NearestToSqrtOver(r, v, d) ==
    /\ r >= 0
    /\ (2 * r + 1) * d * (2 * r + 1) * d >= 4 * v
    /\ r = 0 \/ (2 * r - 1) * d * (2 * r - 1) * d <= 4 * v

\* years 2000-2002 with rainfall 100, 200 and 300 mm, in mm
ExampleTable == [Year |-> <<2000, 2001, 2002>>, Rainfall |-> <<100, 200, 300>>]

\* its average and its deviation to the nearest mm, and the deviation to two
\* decimals in hundredths of a mm
ExampleAverage == get_average_yearly_rainfall(ExampleTable, Some(2000), Some(2002))
ExampleDeviation == get_standard_deviation(ExampleTable, 2000, Some(2002), FALSE)
ExampleDeviationInHundredths ==
    RoundSqrtDiv(SquaredDeviations(ExampleTable[RAINFALL]) * Scale * Scale, 3)

(* C17: the standard deviation over a range is the population standard     *)
(* deviation of the rainfall of the range (the root of the mean of the      *)
(* squared deviations from the mean, the divisor being the number of years  *)
(* of the range), rounded; with weigh_by_average it is that deviation       *)
(* divided by the average of the range. For 2000-2002 with rainfall 100,    *)
(* 200, 300 the average is 200 and the deviation 81.65.                     *)
C17_PopulationStandardDeviation ==
    /\ (/\ op \in Deviations
        /\ res.computed
        /\ res.value.kind = "num"
        /\ RangeRainfall # <<>>)
           => IF req.weigh_by_average
              THEN NearestToSqrtOver(res.value.v,
                                     SquaredDeviations(RangeRainfall) * Scale * Scale,
                                     Len(RangeRainfall) * ReqAverage)
              ELSE NearestToSqrtOver(res.value.v, SquaredDeviations(RangeRainfall),
                                     Len(RangeRainfall))
    /\ ExampleAverage = 200
    /\ ExampleDeviation = {Ok(Num(82))}
    /\ ExampleDeviationInHundredths = 8165

\* a deviation of two years, one wet and one dry: half the difference, and as
\* large as the average
C17_Witness ==
    /\ op = "/rainfall/standard_deviation"
    /\ res.computed
    /\ ~req.weigh_by_average
    /\ Len(RangeRainfall) = 2
    /\ res.value = Num(WetRain \div 2)

C17_WeighedByAverage ==
    /\ op = "/rainfall/standard_deviation"
    /\ res.computed
    /\ req.weigh_by_average
    /\ Len(RangeRainfall) = 2
    /\ res.value = Num(Scale)
-----------------------------------------------------------------------------
(* C18: get_standard_deviation asked for a label whose column is not in the *)
(* table returns None and raises nothing; asked for Rainfall, with or       *)
(* without weigh_by_average (the average of the range not being 0), it      *)
(* returns a number.                                                         *)
C18_MissingColumnGivesNone ==
    (op = "get_standard_deviation(label)")
    => /\ (req.label \notin DOMAIN yearly_rainfall)
              => res.status = "ok" /\ res.value = NoneVal
       /\ (req.label = RAINFALL /\ (req.weigh_by_average => ReqAverage # 0))
              => res.status = "ok" /\ IsNum(res.value)

\* asked for the filter's column on a table that has the regression's only
C18_Witness ==
    /\ op = "get_standard_deviation(label)"
    /\ req.label = SAVITZKY_GOLAY_FILTER
    /\ DOMAIN yearly_rainfall = {YEAR, RAINFALL, LINEAR_REGRESSION}
    /\ res.value = NoneVal

C18_RainfallWeighed ==
    /\ op = "get_standard_deviation(label)"
    /\ req.label = RAINFALL
    /\ req.weigh_by_average
    /\ SAVITZKY_GOLAY_FILTER \notin DOMAIN yearly_rainfall
    /\ IsNum(res.value) /\ res.value.v > 0
-----------------------------------------------------------------------------
\* the rainfall of the table is a * year + b for some b
LinearInYear(a) ==
    \A i \in 1..(NRows(yearly_rainfall) - 1) :
        yearly_rainfall[RAINFALL][i + 1] - yearly_rainfall[RAINFALL][i]
            = a * (yearly_rainfall[YEAR][i + 1] - yearly_rainfall[YEAR][i])

Slopes == (0 - MaxSlope)..MaxSlope

\* the quotient num / den is the number a
RatioIs(q, a) == q.kind = "ratio" /\ q.v[1] = a * q.v[2]

(* C19: for a table whose rainfall is exactly a * year + b, the linear     *)
(* regression returns the slope a and the coefficient of determination 1,   *)
(* and the fitted value of every year equals the rainfall of that year      *)
(* (the class method, and the script's function, which prints the           *)
(* coefficient and returns no slope).                                       *)
C19_LinearSeriesIsRecovered ==
    \A a \in Slopes :
        LinearInYear(a)
        => /\ (op = "add_linear_regression")
                  => /\ RatioIs(res.value.v[1], 1)
                     /\ RatioIs(res.value.v[2], a)
                     /\ \A i \in AllRows(yearly_rainfall) :
                            yearly_rainfall[LINEAR_REGRESSION][i]
                                = Num(yearly_rainfall[RAINFALL][i])
           /\ (op = "main.apply_linear_regression_to_yearly_rainfall")
                  => /\ RatioIs(res.value.v[1], 1)
                     /\ \A i \in AllRows(yearly_rainfall) :
                            RatioIs(yearly_rainfall[MAIN_LINEAR_REGRESSION][i],
                                    yearly_rainfall[RAINFALL][i])

\* a rising series that does not start at 0
C19_Witness ==
    /\ op = "add_linear_regression"
    /\ LinearInYear(MaxSlope)
    /\ yearly_rainfall[RAINFALL][1] = 1
    /\ RatioIs(res.value.v[2], MaxSlope)

C19_FallingSeries ==
    /\ op = "add_linear_regression"
    /\ LinearInYear(0 - 1)
    /\ RatioIs(res.value.v[2], 0 - 1)

C19_ScriptOnRisingSeries ==
    /\ op = "main.apply_linear_regression_to_yearly_rainfall"
    /\ LinearInYear(MaxSlope)
    /\ RatioIs(res.value.v[1], 1)
-----------------------------------------------------------------------------
\* the years of the table in the range asked for
YearsInRange ==
    {yearly_rainfall[YEAR][i] : i \in Selected(yearly_rainfall)}

\* the range asked for lies in the span of the table
RangeInsideSpan ==
    /\ yearly_rainfall[YEAR][1] <= ReqBegin
    /\ ReqBegin <= ReqEnd
    /\ ReqEnd <= yearly_rainfall[YEAR][NRows(yearly_rainfall)]

\* the least-squares slope of the rainfall of the range on its years
RangeSlope ==
    LinearFit([i \in 1..Len(RangeRainfall) |-> ReqBegin + i - 1], RangeRainfall).slope

C20_RangeFromBeforeTheTable ==
    /\ op = "get_linear_regression"
    /\ ReqBegin < yearly_rainfall[YEAR][1]
    /\ res.status = "ok"
    /\ Len(res.value.v[2].v) = 2
-----------------------------------------------------------------------------
\* the months of a sub-period: start_month alone, start_month to end_month, or
\* start_month to December and January to end_month
MonthsOfPeriod(start_month, end_month) ==
    IF IsNone(end_month) THEN {start_month}
    ELSE IF start_month <= Get(end_month) THEN start_month..Get(end_month)
    ELSE (start_month..DECEMBER) \cup (JANUARY..Get(end_month))

RECURSIVE SumOfMonths(_, _, _)
\* the cells of the row i of the dataset in the months, summed
SumOfMonths(df, i, months) ==
    IF months = {} THEN 0
    ELSE LET m == CHOOSE x \in months : TRUE
         IN  df[m + 1][i] + SumOfMonths(df, i, months \ {m})

\* the position in the dataset of the row of a year
RowOfYear(df, y) == CHOOSE i \in 1..DatasetRows(df) : df[1][i] = y

\* every rainfall of the table is the rounded sum of the months for its year,
\* the dataset having its months
SumsTheMonths(table, months) ==
    HasYearAndMonths(monthly_rainfall) =>
    \A i \in AllRows(table) :
        table[RAINFALL][i]
            = RoundDiv(SumOfMonths(monthly_rainfall,
                                   RowOfYear(monthly_rainfall, table[YEAR][i]), months),
                       RawUnit)

(* C21: the rainfall loaded for a year is the sum of the year's monthly    *)
(* values over exactly the months of the sub-period: start_month alone      *)
(* without end_month, start_month to end_month when start_month <=          *)
(* end_month, and start_month to December plus January to end_month when    *)
(* end_month < start_month.                                                 *)
C21_SumOverTheMonthsOfThePeriod ==
    (op = "retrieve_rainfall_data_with_constraints" /\ res.status = "ok")
    => SumsTheMonths(res.value.v, MonthsOfPeriod(Get(req.start_month), req.end_month))

\* the same of the method of the class
C21_ClassSumsTheMonthsOfThePeriod ==
    (op = "load_rainfall" /\ res.status = "ok")
    => SumsTheMonths(res.value.v, MonthsOfPeriod(Get(req.start_month), req.end_month))

\* the part of C21 that holds: the function, for a period that does not wrap
\* or that starts in December
C21_PeriodsThatStartInDecemberOrDoNotWrap ==
    (/\ op = "retrieve_rainfall_data_with_constraints"
     /\ res.status = "ok"
     /\ \/ IsNone(req.end_month)
        \/ Get(req.start_month) <= Get(req.end_month)
        \/ Get(req.start_month) = DECEMBER)
    => SumsTheMonths(res.value.v, MonthsOfPeriod(Get(req.start_month), req.end_month))

\* the part of C21 that holds: a season sums its three months and the yearly
\* mode all twelve, for the models and for the class
C21_SeasonsAndYearsSumTheirMonths ==
    /\ (op \in {"SeasonalRainfall", "seasonal.load_yearly_rainfall"} /\ res.status = "ok")
           => LET months == get_months(Get(req.season))
              IN  SumsTheMonths(yearly_rainfall, {months[1], months[2], months[3]})
    /\ (op \in {"YearlyRainfall", "load_yearly_rainfall"} /\ res.status = "ok")
           => SumsTheMonths(yearly_rainfall, Months)
-----------------------------------------------------------------------------
Loaders == {"retrieve_rainfall_data_with_constraints", "load_rainfall"}

\* the years of the dataset from starting_year on, in the order of the dataset
YearsFromStart == SelectSeq(monthly_rainfall[1], LAMBDA y : y >= StartYear)

(* C22: for every start_month and end_month, the loader returns a table    *)
(* with exactly the columns Year and Rainfall, holding one row for each     *)
(* year of the dataset that is >= starting_year, in the order of the        *)
(* dataset, and no row for an earlier year; the raw dataset is not          *)
(* modified.                                                                *)
C22_LoadedTableShape ==
    /\ []((op \in Loaders /\ monthly_rainfall # EmptyDataFrame)
             => /\ res.status = "ok"
                /\ res.value.kind = "frame"
                /\ DOMAIN res.value.v = {YEAR, RAINFALL}
                /\ res.value.v[YEAR] = YearsFromStart
                /\ Len(res.value.v[RAINFALL]) = Len(YearsFromStart))
    /\ [][(op' \in Loaders) => monthly_rainfall' = monthly_rainfall]_vars

\* a period over the end of the year, on a dataset whose year before
\* starting_year is the wet one
C22_Witness ==
    /\ op = "retrieve_rainfall_data_with_constraints"
    /\ res.status = "ok"
    /\ ~IsNone(req.end_month)
    /\ Get(req.end_month) < Get(req.start_month)
    /\ HasYearAndMonths(monthly_rainfall)
    /\ monthly_rainfall[2][1] > 0
    /\ res.value.v[YEAR][1] = StartYear
    /\ Len(res.value.v[YEAR]) = DatasetYears - 1
    /\ \A i \in AllRows(res.value.v) : res.value.v[RAINFALL][i] = 0
-----------------------------------------------------------------------------
Constructors == {"YearlyRainfall", "MonthlyRainfall", "SeasonalRainfall"}

C23_ObjectMade ==
    /\ op = "YearlyRainfall"
    /\ res.status = "ok"
    /\ WellFormedTable
    /\ NRows(yearly_rainfall) = DatasetYears - 1
-----------------------------------------------------------------------------
DerivedLabels == {PERCENTAGE_OF_NORMAL, LINEAR_REGRESSION, SAVITZKY_GOLAY_FILTER, KMEANS}

\* the column that an addition sets
ColumnOf(name) ==
    CASE name = "add_percentage_of_normal" -> PERCENTAGE_OF_NORMAL
      [] name = "add_linear_regression" -> LINEAR_REGRESSION
      [] name = "add_savgol_filter" -> SAVITZKY_GOLAY_FILTER
      [] name = "add_kmeans" -> KMEANS

Additions == {"add_percentage_of_normal", "add_linear_regression",
              "add_savgol_filter", "add_kmeans"}

\* the table once the column of the label has been removed
Without(label) == remove_column(yearly_rainfall, label).df

(* C24: after add_percentage_of_normal over a range whose normal is not 0, *)
(* add_linear_regression, add_savgol_filter or add_kmeans, the column of    *)
(* the addition is in the table; a derived column leaves the table only by  *)
(* remove_column of its label, whatever is executed in between;             *)
(* add_kmeans(n) returns n; and a column that has been removed is added     *)
(* again by the same addition.                                              *)
C24_DerivedColumnsStayUntilRemoved ==
    /\ []((/\ op \in Additions
           /\ op = "add_percentage_of_normal"
                  => get_average_yearly_rainfall(yearly_rainfall, req.begin_year,
                                                 req.end_year) # 0)
             => ColumnOf(op) \in DOMAIN yearly_rainfall)
    /\ [][\A label \in DerivedLabels :
              (label \in DOMAIN yearly_rainfall /\ label \notin DOMAIN yearly_rainfall')
              => (op' = "remove_column" /\ req'.label = label)]_vars
    /\ [](op = "add_kmeans" => res.value = Num(Get(req.n_clusters)))
    /\ [](/\ LINEAR_REGRESSION
               \in DOMAIN add_linear_regression(Without(LINEAR_REGRESSION)).df
          /\ SAVITZKY_GOLAY_FILTER
               \in DOMAIN add_savgol_filter(Without(SAVITZKY_GOLAY_FILTER))
          /\ \A n \in ClusterArgs : KMEANS \in DOMAIN add_kmeans(Without(KMEANS), n).df
          /\ (op = "add_percentage_of_normal"
                 /\ get_average_yearly_rainfall(yearly_rainfall, req.begin_year,
                                                req.end_year) # 0)
                => PERCENTAGE_OF_NORMAL
                     \in DOMAIN add_percentage_of_normal(Without(PERCENTAGE_OF_NORMAL),
                                                         req.begin_year, req.end_year))

\* the regression is asked for on a table that has the four derived columns
C24_Witness ==
    /\ op = "get_linear_regression"
    /\ DerivedLabels \subseteq DOMAIN yearly_rainfall

\* three clusters, and a year in the last of them
C24_ClustersAdded ==
    /\ op = "add_kmeans"
    /\ res.value = Num(3)
    /\ \E i \in AllRows(yearly_rainfall) : yearly_rainfall[KMEANS][i] = Num(2)
-----------------------------------------------------------------------------
\* the routes of the figures by month or by season
FigureRoutes == {"/graph/rainfall_averages", "/graph/rainfall_linreg_slopes",
                 "/graph/relative_distances_to_normal"}

\* the years of the request are within the bounds of their queries
QueriesAccepted ==
    /\ YearQueryOk(req.begin_year)
    /\ YearQueryOk(req.end_year)
    /\ NormalYearQueryOk(req.normal_year)

(* C25 as stated: on the routes /graph/rainfall_averages,                   *)
(* /graph/rainfall_linreg_slopes and /graph/relative_distances_to_normal a   *)
(* request with time_mode = yearly is answered with HTTP 400 and no figure   *)
(* is computed, whatever the other parameters are.                           *)
C25_YearlyAnsweredWith400 ==
    (op \in FigureRoutes /\ req.time_mode = "yearly")
    => (res.status = "400" /\ ~res.computed)

(* C25 as amended: on these routes no figure is computed for time_mode =    *)
(* yearly; the answer is HTTP 400 whenever the years of the request are      *)
(* within the bounds of their queries, an inverted range included, and HTTP  *)
(* 422 when one of them is not.                                              *)
C25_YearlyNeverDrawn ==
    (op \in FigureRoutes /\ req.time_mode = "yearly")
    => /\ ~res.computed
       /\ res.status = IF QueriesAccepted THEN "400" ELSE "422"

\* yearly asked with years that are accepted, in a range that is not inverted
C25_Witness ==
    /\ op = "/graph/relative_distances_to_normal"
    /\ req.time_mode = "yearly"
    /\ QueriesAccepted
    /\ ReqBegin <= EndOrLast(req.end_year)
    /\ res.status = "400"

\* yearly asked with a begin_year before the first year available
C25_YearOutOfBounds ==
    /\ op = "/graph/rainfall_averages"
    /\ req.time_mode = "yearly"
    /\ ReqBegin < min_year_available
    /\ res.status = "422"
-----------------------------------------------------------------------------
\* the routes whose end_year is optional
OptionalEndRoutes ==
    {"/rainfall/average", "/rainfall/relative_distance_to_normal",
     "/rainfall/standard_deviation", "/year/below_normal", "/year/above_normal",
     "/csv/rainfall_by_year", "/graph/rainfall_by_year"} \cup FigureRoutes

\* the answers of a route to a request r that gives its end_year
AnswersWithEndYear(route, r) ==
    LET b == Get(r.begin_year)
        e == Get(r.end_year)
        ny == Get(r.normal_year)
    IN  CASE route = "/rainfall/average" ->
                 {StatisticRoute(r, Ok(Num(get_average_yearly_rainfall(yearly_rainfall,
                                               Some(b), Some(e)))))}
          [] route = "/rainfall/relative_distance_to_normal" ->
                 {StatisticRoute(r, get_relative_distance_to_normal(yearly_rainfall,
                                        ny, b, e))}
          [] route = "/rainfall/standard_deviation" ->
                 {StatisticRoute(r, out) :
                     out \in get_standard_deviation(yearly_rainfall, b, Some(e),
                                                    r.weigh_by_average)}
          [] route = "/year/below_normal" ->
                 {StatisticRoute(r, Ok(Num(get_years_below_normal(yearly_rainfall,
                                               ny, b, e))))}
          [] route = "/year/above_normal" ->
                 {StatisticRoute(r, Ok(Num(get_years_above_normal(yearly_rainfall,
                                               ny, b, e))))}
          [] route \in {"/csv/rainfall_by_year", "/graph/rainfall_by_year"} ->
                 {StatisticRoute(r, Named(r))}
          [] route = "/graph/relative_distances_to_normal" ->
                 {FigureRoute(r, FALSE, Rendered)}
          [] OTHER -> {FigureRoute(r, TRUE, Rendered)}

\* the request in hand, with the most recent year available as its end_year
WithLastYear == [req EXCEPT !.end_year = Some(max_year_available)]

(* C26: on every route with an optional end_year, a request without         *)
(* end_year is answered as the same request with end_year = the most recent  *)
(* year available, and an answer that was computed reports that year as      *)
(* end_year.                                                                 *)
C26_EndYearDefaultsToLastYear ==
    (op \in OptionalEndRoutes /\ IsNone(req.end_year))
    => /\ res \in AnswersWithEndYear(op, WithLastYear)
       /\ res.computed => res.end_year = Some(max_year_available)

\* an average asked without end_year, over years whose last one changes it
C26_Witness ==
    /\ op = "/rainfall/average"
    /\ IsNone(req.end_year)
    /\ res.computed
    /\ res.end_year = Some(max_year_available)
    /\ res.value # Num(get_average_yearly_rainfall(yearly_rainfall, req.begin_year,
                                                   Some(max_year_available - 1)))

\* a figure asked without end_year
C26_FigureWithoutEndYear ==
    /\ op \in FigureRoutes
    /\ IsNone(req.end_year)
    /\ res.computed
    /\ res.end_year = Some(max_year_available)
-----------------------------------------------------------------------------
\* a CSV was exported
Exported == op = "export_as_csv" /\ res.status = "ok"

(* C27: the CSV export of rainfall by year contains exactly the two columns  *)
(* Year and Rainfall, one line per year, whatever derived columns have been  *)
(* added to the table before the export.                                     *)
C27_CsvHasYearAndRainfallOnly ==
    Exported
    => /\ res.value.v.header = {YEAR, RAINFALL}
       /\ Len(res.value.v.lines) = NRows(yearly_rainfall)

(* C27, what holds of the class: the export has the columns of the table as  *)
(* it is when exported, one line per year of the table with the year's cells, *)
(* so it has Year and Rainfall only while no derived column is in the table.  *)
C27_CsvHasTheColumnsOfTheTable ==
    Exported
    => /\ res.value.v.header = DOMAIN yearly_rainfall
       /\ Len(res.value.v.lines) = NRows(yearly_rainfall)
       /\ \A i \in 1..NRows(yearly_rainfall) :
              /\ res.value.v.lines[i][YEAR] = yearly_rainfall[YEAR][i]
              /\ res.value.v.lines[i][RAINFALL] = yearly_rainfall[RAINFALL][i]

\* an export after the percentages of normal were added
C27_ExportWithDerivedColumn ==
    /\ Exported
    /\ PERCENTAGE_OF_NORMAL \in res.value.v.header

\* an export of the table as loaded
C27_ExportOfLoadedTable ==
    /\ Exported
    /\ res.value.v.header = {YEAR, RAINFALL}
-----------------------------------------------------------------------------
\* the routes that take the first year of a normal
NormalRoutes ==
    {"/rainfall/normal", "/rainfall/relative_distance_to_normal",
     "/year/below_normal", "/year/above_normal",
     "/graph/relative_distances_to_normal"}

\* the first year of the normal of the request in hand
NormalYearAsked ==
    IF op = "/rainfall/normal" THEN ReqBegin ELSE Get(req.normal_year)

\* the rows of the table within the 30 years that start at year
NormalWindow(year) ==
    get_rainfall_within_year_interval(yearly_rainfall, year, Some(year + NormalSpan))

(* C28: for every normal_year the API accepts, the whole 30-year window      *)
(* [normal_year, normal_year + 29] lies inside the available data span, so a *)
(* normal is never computed over fewer than 30 years.                        *)
C28_NormalWindowInsideTheData ==
    (op \in NormalRoutes /\ res.status # "422")
    => /\ min_year_available <= NormalYearAsked
       /\ NormalYearAsked + NormalSpan <= max_year_available
       /\ NRows(NormalWindow(NormalYearAsked)) = NormalSpan + 1

\* a normal computed from the last year accepted: its window ends with the data
C28_Witness ==
    /\ op = "/rainfall/normal"
    /\ res.computed
    /\ ReqBegin = max_normal_year_available
    /\ ReqBegin + NormalSpan = max_year_available

\* a normal year after the last one accepted is refused
C28_LateNormalYearRefused ==
    /\ op = "/rainfall/relative_distance_to_normal"
    /\ Get(req.normal_year) = max_normal_year_available + 1
    /\ YearQueryOk(req.begin_year) /\ YearQueryOk(req.end_year)
    /\ res.status = "422"
-----------------------------------------------------------------------------
\* the routes that take month and season
MonthSeasonRoutes ==
    {"/rainfall/average", "/rainfall/normal", "/rainfall/relative_distance_to_normal",
     "/rainfall/standard_deviation", "/year/below_normal", "/year/above_normal",
     "/csv/rainfall_by_year", "/graph/rainfall_by_year"}

\* the month of the monthly mode or the season of the seasonal mode is missing
PeriodMissing == TimeModeError(req.time_mode, req.month, req.season)

(* C29: in every route that takes month and season, a request with          *)
(* time_mode = monthly and no month, or time_mode = seasonal and no season,  *)
(* is rejected before the statistic is computed and before month.value or    *)
(* season.value is read for a file name: it gets an error of the request,    *)
(* never a result and never a failure of the handler. A successful response  *)
(* echoes month only when time_mode is monthly and season only when it is    *)
(* seasonal, and null otherwise.                                             *)
C29_TimeModeCheckedFirst ==
    op \in MonthSeasonRoutes
    => /\ PeriodMissing => (~res.computed /\ res.status \in {"400", "422"})
       /\ (res.computed /\ res.status = "ok")
          => /\ res.month = IF req.time_mode = "monthly" THEN req.month ELSE None
             /\ res.season = IF req.time_mode = "seasonal" THEN req.season ELSE None

\* a CSV asked by month without a month, its years in order: the time mode
\* check refuses it
C29_Witness ==
    /\ op = "/csv/rainfall_by_year"
    /\ req.time_mode = "monthly"
    /\ IsNone(req.month)
    /\ YearQueryOk(req.begin_year) /\ YearQueryOk(req.end_year)
    /\ ReqBegin <= EndOrLast(req.end_year)
    /\ res.status = "400"
    /\ ~res.computed

\* a yearly average asked with a month and a season: neither is echoed
C29_UnusedPeriodNotEchoed ==
    /\ op = "/rainfall/average"
    /\ req.time_mode = "yearly"
    /\ ~IsNone(req.month)
    /\ ~IsNone(req.season)
    /\ res.computed
    /\ IsNone(res.month)
    /\ IsNone(res.season)

\* a seasonal average echoes its season, not the month given with it
C29_SeasonEchoed ==
    /\ op = "/rainfall/average"
    /\ req.time_mode = "seasonal"
    /\ res.computed
    /\ res.season = req.season
    /\ ~IsNone(res.season)

====
